---- MODULE Spec2Model ----
(***************************************************************************)
(* Guild permission aggregation and member hierarchy comparison of        *)
(* src/src/model/guild/mod.rs: Guild::member_highest_role,                 *)
(* Guild::greater_member_hierarchy, Guild::member_permissions,             *)
(* Guild::user_permissions_in and calculate_permissions.                   *)
(*                                                                         *)
(* An Option<T> is a sequence of length at most one: None is <<>> and      *)
(* Some(x) is <<x>>.  An ExtractMap<K, V> is a function whose domain is    *)
(* the set of keys present.  A Permissions bitset is the set of the flags  *)
(* that are set in it.                                                     *)
(***************************************************************************)
EXTENDS Integers, Sequences, FiniteSets

(* ------------------------------ bounds --------------------------------- *)

\* Role IDs range over 1..NumRoleIds.
NumRoleIds == 3
\* User IDs range over 1..NumUsers.
NumUsers == 3
\* The permission operations see user IDs 1..NumPermUsers.
NumPermUsers == 2
\* Greatest length of a member's role list.
MaxRoles == 2
\* Greatest length of a channel's overwrite list.
MaxOverwrites == 2
\* Role positions range over 0..MaxPosition.
MaxPosition == 1

RoleIds == 1..NumRoleIds
UserIds == 1..NumUsers
\* The owner of a guild is one of the users above or a user that the member
\* map, which holds the cached members only, has no entry for.
OwnerIds == 1..(NumUsers + 1)
Positions == 0..MaxPosition

\* The guilds under check all carry this ID; the @everyone role is the role
\* whose ID equals it.
GuildIds == {2}

(* ------------------------------ Option --------------------------------- *)

None == <<>>
Some(x) == <<x>>
IsSome(o) == Len(o) = 1
Unwrap(o) == o[1]

(* --------------------------- Permissions ------------------------------- *)

ADMINISTRATOR == "ADMINISTRATOR"
VIEW_CHANNEL == "VIEW_CHANNEL"

\* Permissions::all(): every flag.
PermissionsAll == {ADMINISTRATOR, VIEW_CHANNEL}
\* Permissions::empty()
PermissionsEmpty == {}
\* a | b
BitOr(a, b) == a \cup b
\* a & b
BitAnd(a, b) == a \cap b
\* !a (bitflags: the complement within the defined flags)
BitNot(a) == PermissionsAll \ a
\* a.contains(b)
Contains(a, b) == b \subseteq a

PermissionSets == SUBSET PermissionsAll

(* --------------------------- sequences --------------------------------- *)

\* Every sequence over S of length at most n.
SeqsUpTo(S, n) == UNION {[1..k -> S] : k \in 0..n}

\* slice.contains(&x)
SliceContains(s, x) == \E i \in 1..Len(s) : s[i] = x

(* ------------------------ member_highest_role -------------------------- *)

\* Variant: a role that ties the running highest on position is always
\* skipped, so the first of the tied roles in the list stays.
HighestSkipKeepsFirstOfTie(role, highest) ==
    role.position <= highest.position

\* The `continue` condition: the role in iteration is skipped.
HighestSkip(role, highest) ==
    \/ role.position < highest.position
    \/ (role.position = highest.position /\ role.id > highest.id)

\* Variant: an ID that does not resolve clears the running highest.
HighestStepClears(roles, highest, role_id) ==
    IF role_id \in DOMAIN roles
    THEN IF IsSome(highest) /\ HighestSkip(roles[role_id], Unwrap(highest))
         THEN highest
         ELSE Some(roles[role_id])
    ELSE None

\* One iteration of the loop of _member_highest_role_in: the running
\* `highest` after role_id has been looked at.
HighestStep(roles, highest, role_id) ==
    IF role_id \in DOMAIN roles
    THEN IF IsSome(highest) /\ HighestSkip(roles[role_id], Unwrap(highest))
         THEN highest
         ELSE Some(roles[role_id])
    ELSE highest

RECURSIVE HighestLoop(_, _, _, _)
HighestLoop(roles, member_roles, i, highest) ==
    IF i > Len(member_roles)
    THEN highest
    ELSE HighestLoop(roles, member_roles, i + 1,
                     HighestStep(roles, highest, member_roles[i]))

\* Guild::_member_highest_role_in
MemberHighestRoleIn(roles, member) == HighestLoop(roles, member.roles, 1, None)

(* --------------------- greater_member_hierarchy ------------------------ *)

\* The sentinel of a side with no highest role: (RoleId::new(1), 0).
SentinelRoleId == 1
SentinelPosition == 0

\* highest_role.map_or((RoleId::new(1), 0), |r| (r.id, r.position))
RoleOrSentinel(highest_role) ==
    IF IsSome(highest_role)
    THEN <<Unwrap(highest_role).id, Unwrap(highest_role).position>>
    ELSE <<SentinelRoleId, SentinelPosition>>

\* Variant: of two different positions the smaller one wins.
GreaterMemberHierarchyInSmallerPositionWins(lhs_highest_role, rhs_highest_role, owner_id, lhs, rhs) ==
    LET lhs_role == RoleOrSentinel(lhs_highest_role)
        rhs_role == RoleOrSentinel(rhs_highest_role)
    IN  IF lhs.user_id = rhs.user_id THEN None
        ELSE IF lhs.user_id = owner_id THEN Some(lhs.user_id)
        ELSE IF rhs.user_id = owner_id THEN Some(rhs.user_id)
        ELSE IF (lhs_role[2] = 0 /\ rhs_role[2] = 0) \/ (lhs_role[1] = rhs_role[1])
             THEN None
        ELSE IF lhs_role[2] < rhs_role[2] THEN Some(lhs.user_id)
        ELSE IF rhs_role[2] < lhs_role[2] THEN Some(rhs.user_id)
        ELSE IF lhs_role[2] = rhs_role[2] /\ lhs_role[1] < rhs_role[1]
             THEN Some(lhs.user_id)
        ELSE Some(rhs.user_id)

\* Variant: a tie on position always goes to the left-hand member.
GreaterMemberHierarchyInLhsWinsTie(lhs_highest_role, rhs_highest_role, owner_id, lhs, rhs) ==
    LET lhs_role == RoleOrSentinel(lhs_highest_role)
        rhs_role == RoleOrSentinel(rhs_highest_role)
    IN  IF lhs.user_id = rhs.user_id THEN None
        ELSE IF lhs.user_id = owner_id THEN Some(lhs.user_id)
        ELSE IF rhs.user_id = owner_id THEN Some(rhs.user_id)
        ELSE IF (lhs_role[2] = 0 /\ rhs_role[2] = 0) \/ (lhs_role[1] = rhs_role[1])
             THEN None
        ELSE IF lhs_role[2] > rhs_role[2] THEN Some(lhs.user_id)
        ELSE IF rhs_role[2] > lhs_role[2] THEN Some(rhs.user_id)
        ELSE Some(lhs.user_id)

\* Variant: the owner test comes before the test for equal IDs.
GreaterMemberHierarchyInOwnerFirst(lhs_highest_role, rhs_highest_role, owner_id, lhs, rhs) ==
    LET lhs_role == RoleOrSentinel(lhs_highest_role)
        rhs_role == RoleOrSentinel(rhs_highest_role)
    IN  IF lhs.user_id = owner_id THEN Some(lhs.user_id)
        ELSE IF rhs.user_id = owner_id THEN Some(rhs.user_id)
        ELSE IF lhs.user_id = rhs.user_id THEN None
        ELSE IF (lhs_role[2] = 0 /\ rhs_role[2] = 0) \/ (lhs_role[1] = rhs_role[1])
             THEN None
        ELSE IF lhs_role[2] > rhs_role[2] THEN Some(lhs.user_id)
        ELSE IF rhs_role[2] > lhs_role[2] THEN Some(rhs.user_id)
        ELSE IF lhs_role[2] = rhs_role[2] /\ lhs_role[1] < rhs_role[1]
             THEN Some(lhs.user_id)
        ELSE Some(rhs.user_id)

\* Variant: only the left-hand side is tested for being the owner.
GreaterMemberHierarchyInLhsOwnerOnly(lhs_highest_role, rhs_highest_role, owner_id, lhs, rhs) ==
    LET lhs_role == RoleOrSentinel(lhs_highest_role)
        rhs_role == RoleOrSentinel(rhs_highest_role)
    IN  IF lhs.user_id = rhs.user_id THEN None
        ELSE IF lhs.user_id = owner_id THEN Some(lhs.user_id)
        ELSE IF (lhs_role[2] = 0 /\ rhs_role[2] = 0) \/ (lhs_role[1] = rhs_role[1])
             THEN None
        ELSE IF lhs_role[2] > rhs_role[2] THEN Some(lhs.user_id)
        ELSE IF rhs_role[2] > lhs_role[2] THEN Some(rhs.user_id)
        ELSE IF lhs_role[2] = rhs_role[2] /\ lhs_role[1] < rhs_role[1]
             THEN Some(lhs.user_id)
        ELSE Some(rhs.user_id)

\* Variant: at equal positions the side with the greater role ID wins.
GreaterMemberHierarchyInGreaterIdWins(lhs_highest_role, rhs_highest_role, owner_id, lhs, rhs) ==
    LET lhs_role == RoleOrSentinel(lhs_highest_role)
        rhs_role == RoleOrSentinel(rhs_highest_role)
    IN  IF lhs.user_id = rhs.user_id THEN None
        ELSE IF lhs.user_id = owner_id THEN Some(lhs.user_id)
        ELSE IF rhs.user_id = owner_id THEN Some(rhs.user_id)
        ELSE IF (lhs_role[2] = 0 /\ rhs_role[2] = 0) \/ (lhs_role[1] = rhs_role[1])
             THEN None
        ELSE IF lhs_role[2] > rhs_role[2] THEN Some(lhs.user_id)
        ELSE IF rhs_role[2] > lhs_role[2] THEN Some(rhs.user_id)
        ELSE IF lhs_role[2] = rhs_role[2] /\ lhs_role[1] > rhs_role[1]
             THEN Some(lhs.user_id)
        ELSE Some(rhs.user_id)

\* Guild::_greater_member_hierarchy_in
GreaterMemberHierarchyIn(lhs_highest_role, rhs_highest_role, owner_id, lhs, rhs) ==
    LET lhs_role == RoleOrSentinel(lhs_highest_role)
        rhs_role == RoleOrSentinel(rhs_highest_role)
    IN  IF lhs.user_id = rhs.user_id THEN None
        ELSE IF lhs.user_id = owner_id THEN Some(lhs.user_id)
        ELSE IF rhs.user_id = owner_id THEN Some(rhs.user_id)
        ELSE IF (lhs_role[2] = 0 /\ rhs_role[2] = 0) \/ (lhs_role[1] = rhs_role[1])
             THEN None
        ELSE IF lhs_role[2] > rhs_role[2] THEN Some(lhs.user_id)
        ELSE IF rhs_role[2] > lhs_role[2] THEN Some(rhs.user_id)
        ELSE IF lhs_role[2] = rhs_role[2] /\ lhs_role[1] < rhs_role[1]
             THEN Some(lhs.user_id)
        ELSE Some(rhs.user_id)

\* Variant: the owner wins before the right-hand member is looked up.
GreaterMemberHierarchyOwnerBeforeLookup(g, lhs_id, rhs_id) ==
    IF lhs_id \notin DOMAIN g.members THEN None
    ELSE IF lhs_id = g.owner_id /\ lhs_id # rhs_id THEN Some(lhs_id)
    ELSE IF rhs_id \notin DOMAIN g.members THEN None
    ELSE GreaterMemberHierarchyIn(
             MemberHighestRoleIn(g.roles, g.members[lhs_id]),
             MemberHighestRoleIn(g.roles, g.members[rhs_id]),
             g.owner_id, g.members[lhs_id], g.members[rhs_id])

\* Guild::greater_member_hierarchy
GreaterMemberHierarchy(g, lhs_id, rhs_id) ==
    IF lhs_id \notin DOMAIN g.members THEN None
    ELSE IF rhs_id \notin DOMAIN g.members THEN None
    ELSE GreaterMemberHierarchyIn(
             MemberHighestRoleIn(g.roles, g.members[lhs_id]),
             MemberHighestRoleIn(g.roles, g.members[rhs_id]),
             g.owner_id, g.members[lhs_id], g.members[rhs_id])

(* ----------------------- permission computation ------------------------ *)

\* The accumulators of _user_permissions_in before the loop over the
\* channel's overwrites.
NoOverwrites ==
    [everyone_allow_overwrites |-> PermissionsEmpty,
     everyone_deny_overwrites  |-> PermissionsEmpty,
     roles_allow_overwrites    |-> <<>>,
     roles_deny_overwrites     |-> <<>>,
     member_allow_overwrites   |-> PermissionsEmpty,
     member_deny_overwrites    |-> PermissionsEmpty]

\* Variant: a role overwrite is kept whether or not the member holds the role.
OverwriteStepAnyRole(acc, overwrite, member_user_id, member_roles, guild_id) ==
    IF overwrite.kind = "Member"
    THEN IF member_user_id = overwrite.id
         THEN [acc EXCEPT !.member_allow_overwrites = overwrite.allow,
                          !.member_deny_overwrites = overwrite.deny]
         ELSE acc
    ELSE IF overwrite.id = guild_id
         THEN [acc EXCEPT !.everyone_allow_overwrites = overwrite.allow,
                          !.everyone_deny_overwrites = overwrite.deny]
         ELSE [acc EXCEPT
                 !.roles_allow_overwrites = Append(@, overwrite.allow),
                 !.roles_deny_overwrites = Append(@, overwrite.deny)]

\* Variant: the overwrites keyed by the member are united instead of the
\* last one replacing the earlier ones.
OverwriteStepUnitesMember(acc, overwrite, member_user_id, member_roles, guild_id) ==
    IF overwrite.kind = "Member"
    THEN IF member_user_id = overwrite.id
         THEN [acc EXCEPT !.member_allow_overwrites = BitOr(@, overwrite.allow),
                          !.member_deny_overwrites = BitOr(@, overwrite.deny)]
         ELSE acc
    ELSE IF overwrite.id = guild_id
         THEN [acc EXCEPT !.everyone_allow_overwrites = overwrite.allow,
                          !.everyone_deny_overwrites = overwrite.deny]
         ELSE IF SliceContains(member_roles, overwrite.id)
              THEN [acc EXCEPT
                      !.roles_allow_overwrites = Append(@, overwrite.allow),
                      !.roles_deny_overwrites = Append(@, overwrite.deny)]
              ELSE acc

\* Variant: a member overwrite is taken whoever it is keyed by.
OverwriteStepAnyMember(acc, overwrite, member_user_id, member_roles, guild_id) ==
    IF overwrite.kind = "Member"
    THEN [acc EXCEPT !.member_allow_overwrites = overwrite.allow,
                     !.member_deny_overwrites = overwrite.deny]
    ELSE IF overwrite.id = guild_id
         THEN [acc EXCEPT !.everyone_allow_overwrites = overwrite.allow,
                          !.everyone_deny_overwrites = overwrite.deny]
         ELSE IF SliceContains(member_roles, overwrite.id)
              THEN [acc EXCEPT
                      !.roles_allow_overwrites = Append(@, overwrite.allow),
                      !.roles_deny_overwrites = Append(@, overwrite.deny)]
              ELSE acc

\* One iteration of the loop over channel.permission_overwrites.
OverwriteStep(acc, overwrite, member_user_id, member_roles, guild_id) ==
    IF overwrite.kind = "Member"
    THEN IF member_user_id = overwrite.id
         THEN [acc EXCEPT !.member_allow_overwrites = overwrite.allow,
                          !.member_deny_overwrites = overwrite.deny]
         ELSE acc
    ELSE IF overwrite.id = guild_id
         THEN [acc EXCEPT !.everyone_allow_overwrites = overwrite.allow,
                          !.everyone_deny_overwrites = overwrite.deny]
         ELSE IF SliceContains(member_roles, overwrite.id)
              THEN [acc EXCEPT
                      !.roles_allow_overwrites = Append(@, overwrite.allow),
                      !.roles_deny_overwrites = Append(@, overwrite.deny)]
              ELSE acc

RECURSIVE OverwriteLoop(_, _, _, _, _, _)
OverwriteLoop(acc, overwrites, i, member_user_id, member_roles, guild_id) ==
    IF i > Len(overwrites)
    THEN acc
    ELSE OverwriteLoop(
             OverwriteStep(acc, overwrites[i], member_user_id, member_roles, guild_id),
             overwrites, i + 1, member_user_id, member_roles, guild_id)

\* `for p in v { acc |= p }`
RECURSIVE UnionLoop(_, _, _)
UnionLoop(acc, v, i) ==
    IF i > Len(v) THEN acc ELSE UnionLoop(BitOr(acc, v[i]), v, i + 1)

\* Variant: the member-specific overwrite is applied before the role
\* overwrites.
CalculatePermissionsMemberFirst(data) ==
    IF data.is_guild_owner THEN PermissionsAll
    ELSE
      LET base == UnionLoop(data.everyone_permissions, data.user_roles_permissions, 1)
      IN  IF Contains(base, {ADMINISTRATOR}) THEN PermissionsAll
          ELSE
            LET p3 == BitAnd(base, BitNot(data.everyone_deny_overwrites))
                p4 == BitOr(p3, data.everyone_allow_overwrites)
                p5 == BitAnd(p4, BitNot(data.member_deny_overwrites))
                p6 == BitOr(p5, data.member_allow_overwrites)
                role_deny_permissions ==
                    UnionLoop(PermissionsEmpty, data.roles_deny_overwrites, 1)
                p7 == BitAnd(p6, BitNot(role_deny_permissions))
                role_allow_permissions ==
                    UnionLoop(PermissionsEmpty, data.roles_allow_overwrites, 1)
            IN  BitOr(p7, role_allow_permissions)

\* Variant: ADMINISTRATOR is looked for in the @everyone role's permissions
\* only, before the member's roles are united with them.
CalculatePermissionsAdminOfEveryone(data) ==
    IF data.is_guild_owner THEN PermissionsAll
    ELSE
      LET base == UnionLoop(data.everyone_permissions, data.user_roles_permissions, 1)
      IN  IF Contains(data.everyone_permissions, {ADMINISTRATOR}) THEN PermissionsAll
          ELSE
            LET p3 == BitAnd(base, BitNot(data.everyone_deny_overwrites))
                p4 == BitOr(p3, data.everyone_allow_overwrites)
                role_deny_permissions ==
                    UnionLoop(PermissionsEmpty, data.roles_deny_overwrites, 1)
                p5 == BitAnd(p4, BitNot(role_deny_permissions))
                role_allow_permissions ==
                    UnionLoop(PermissionsEmpty, data.roles_allow_overwrites, 1)
                p6 == BitOr(p5, role_allow_permissions)
                p7 == BitAnd(p6, BitNot(data.member_deny_overwrites))
            IN  BitOr(p7, data.member_allow_overwrites)

\* Variant: the role overwrites' allows are applied before their denies.
CalculatePermissionsRoleAllowFirst(data) ==
    IF data.is_guild_owner THEN PermissionsAll
    ELSE
      LET base == UnionLoop(data.everyone_permissions, data.user_roles_permissions, 1)
      IN  IF Contains(base, {ADMINISTRATOR}) THEN PermissionsAll
          ELSE
            LET p3 == BitAnd(base, BitNot(data.everyone_deny_overwrites))
                p4 == BitOr(p3, data.everyone_allow_overwrites)
                role_allow_permissions ==
                    UnionLoop(PermissionsEmpty, data.roles_allow_overwrites, 1)
                p5 == BitOr(p4, role_allow_permissions)
                role_deny_permissions ==
                    UnionLoop(PermissionsEmpty, data.roles_deny_overwrites, 1)
                p6 == BitAnd(p5, BitNot(role_deny_permissions))
                p7 == BitAnd(p6, BitNot(data.member_deny_overwrites))
            IN  BitOr(p7, data.member_allow_overwrites)

\* Variant: the @everyone overwrite is applied after the role overwrites.
CalculatePermissionsEveryoneAfterRoles(data) ==
    IF data.is_guild_owner THEN PermissionsAll
    ELSE
      LET base == UnionLoop(data.everyone_permissions, data.user_roles_permissions, 1)
      IN  IF Contains(base, {ADMINISTRATOR}) THEN PermissionsAll
          ELSE
            LET role_deny_permissions ==
                    UnionLoop(PermissionsEmpty, data.roles_deny_overwrites, 1)
                p3 == BitAnd(base, BitNot(role_deny_permissions))
                role_allow_permissions ==
                    UnionLoop(PermissionsEmpty, data.roles_allow_overwrites, 1)
                p4 == BitOr(p3, role_allow_permissions)
                p5 == BitAnd(p4, BitNot(data.everyone_deny_overwrites))
                p6 == BitOr(p5, data.everyone_allow_overwrites)
                p7 == BitAnd(p6, BitNot(data.member_deny_overwrites))
            IN  BitOr(p7, data.member_allow_overwrites)

\* Variant: the member-specific overwrite's allow is applied before its deny.
CalculatePermissionsMemberAllowFirst(data) ==
    IF data.is_guild_owner THEN PermissionsAll
    ELSE
      LET base == UnionLoop(data.everyone_permissions, data.user_roles_permissions, 1)
      IN  IF Contains(base, {ADMINISTRATOR}) THEN PermissionsAll
          ELSE
            LET p3 == BitAnd(base, BitNot(data.everyone_deny_overwrites))
                p4 == BitOr(p3, data.everyone_allow_overwrites)
                role_deny_permissions ==
                    UnionLoop(PermissionsEmpty, data.roles_deny_overwrites, 1)
                p5 == BitAnd(p4, BitNot(role_deny_permissions))
                role_allow_permissions ==
                    UnionLoop(PermissionsEmpty, data.roles_allow_overwrites, 1)
                p6 == BitOr(p5, role_allow_permissions)
                p7 == BitOr(p6, data.member_allow_overwrites)
            IN  BitAnd(p7, BitNot(data.member_deny_overwrites))

\* Variant: ADMINISTRATOR is looked for again once the overwrites are
\* applied, and an administrator by overwrite gets every permission.
CalculatePermissionsAdminAfterOverwrites(data) ==
    IF data.is_guild_owner THEN PermissionsAll
    ELSE
      LET base == UnionLoop(data.everyone_permissions, data.user_roles_permissions, 1)
      IN  IF Contains(base, {ADMINISTRATOR}) THEN PermissionsAll
          ELSE
            LET p3 == BitAnd(base, BitNot(data.everyone_deny_overwrites))
                p4 == BitOr(p3, data.everyone_allow_overwrites)
                role_deny_permissions ==
                    UnionLoop(PermissionsEmpty, data.roles_deny_overwrites, 1)
                p5 == BitAnd(p4, BitNot(role_deny_permissions))
                role_allow_permissions ==
                    UnionLoop(PermissionsEmpty, data.roles_allow_overwrites, 1)
                p6 == BitOr(p5, role_allow_permissions)
                p7 == BitAnd(p6, BitNot(data.member_deny_overwrites))
                p8 == BitOr(p7, data.member_allow_overwrites)
            IN  IF Contains(p8, {ADMINISTRATOR}) THEN PermissionsAll ELSE p8

\* calculate_permissions
CalculatePermissions(data) ==
    IF data.is_guild_owner THEN PermissionsAll
    ELSE
      LET base == UnionLoop(data.everyone_permissions, data.user_roles_permissions, 1)
      IN  IF Contains(base, {ADMINISTRATOR}) THEN PermissionsAll
          ELSE
            LET p3 == BitAnd(base, BitNot(data.everyone_deny_overwrites))
                p4 == BitOr(p3, data.everyone_allow_overwrites)
                role_deny_permissions ==
                    UnionLoop(PermissionsEmpty, data.roles_deny_overwrites, 1)
                p5 == BitAnd(p4, BitNot(role_deny_permissions))
                role_allow_permissions ==
                    UnionLoop(PermissionsEmpty, data.roles_allow_overwrites, 1)
                p6 == BitOr(p5, role_allow_permissions)
                p7 == BitAnd(p6, BitNot(data.member_deny_overwrites))
            IN  BitOr(p7, data.member_allow_overwrites)

\* Variant: a missing @everyone role counts as granting every permission.
EveryonePermissionsMissingIsAll(guild_id, guild_roles) ==
    IF guild_id \in DOMAIN guild_roles
    THEN guild_roles[guild_id].permissions
    ELSE PermissionsAll

\* The everyone_permissions field built by _user_permissions_in.
EveryonePermissions(guild_id, guild_roles) ==
    IF guild_id \in DOMAIN guild_roles
    THEN guild_roles[guild_id].permissions
    ELSE PermissionsEmpty

\* Variant: the collection stops at the first role ID that does not resolve.
UserRolesPermissionsStopsAtUnresolved(member_roles, guild_roles) ==
    LET unresolved == {i \in 1..Len(member_roles) :
                          member_roles[i] \notin DOMAIN guild_roles}
        n == IF unresolved = {} THEN Len(member_roles)
             ELSE (CHOOSE i \in unresolved : \A j \in unresolved : i <= j) - 1
    IN  [i \in 1..n |-> guild_roles[member_roles[i]].permissions]

\* The user_roles_permissions field built by _user_permissions_in.
UserRolesPermissions(member_roles, guild_roles) ==
    [i \in 1..Len(member_roles) |->
        IF member_roles[i] \in DOMAIN guild_roles
        THEN guild_roles[member_roles[i]].permissions
        ELSE PermissionsEmpty]

\* Variant: the comparison inverted.
IsGuildOwnerInverted(member_user_id, guild_owner_id) == member_user_id # guild_owner_id

\* The is_guild_owner field built by _user_permissions_in.
IsGuildOwner(member_user_id, guild_owner_id) == member_user_id = guild_owner_id

\* Variant: the role IDs of the member that do not resolve in the store are
\* dropped before the overwrites are matched.
UserPermissionsInHelperResolvedRolesOnly(channel, member_user_id, member_roles, guild_id, guild_roles, guild_owner_id) ==
    LET resolved == SelectSeq(member_roles, LAMBDA r : r \in DOMAIN guild_roles)
        acc == IF IsSome(channel)
               THEN OverwriteLoop(NoOverwrites, Unwrap(channel).permission_overwrites,
                                  1, member_user_id, resolved, guild_id)
               ELSE NoOverwrites
    IN  CalculatePermissions(
          [is_guild_owner            |-> IsGuildOwner(member_user_id, guild_owner_id),
           everyone_permissions      |-> EveryonePermissions(guild_id, guild_roles),
           user_roles_permissions    |-> UserRolesPermissions(resolved, guild_roles),
           everyone_allow_overwrites |-> acc.everyone_allow_overwrites,
           everyone_deny_overwrites  |-> acc.everyone_deny_overwrites,
           roles_allow_overwrites    |-> acc.roles_allow_overwrites,
           roles_deny_overwrites     |-> acc.roles_deny_overwrites,
           member_allow_overwrites   |-> acc.member_allow_overwrites,
           member_deny_overwrites    |-> acc.member_deny_overwrites])

\* Guild::_user_permissions_in; channel is an Option.
UserPermissionsInHelper(channel, member_user_id, member_roles, guild_id, guild_roles, guild_owner_id) ==
    LET acc == IF IsSome(channel)
               THEN OverwriteLoop(NoOverwrites, Unwrap(channel).permission_overwrites,
                                  1, member_user_id, member_roles, guild_id)
               ELSE NoOverwrites
    IN  CalculatePermissions(
          [is_guild_owner            |-> IsGuildOwner(member_user_id, guild_owner_id),
           everyone_permissions      |-> EveryonePermissions(guild_id, guild_roles),
           user_roles_permissions    |-> UserRolesPermissions(member_roles, guild_roles),
           everyone_allow_overwrites |-> acc.everyone_allow_overwrites,
           everyone_deny_overwrites  |-> acc.everyone_deny_overwrites,
           roles_allow_overwrites    |-> acc.roles_allow_overwrites,
           roles_deny_overwrites     |-> acc.roles_deny_overwrites,
           member_allow_overwrites   |-> acc.member_allow_overwrites,
           member_deny_overwrites    |-> acc.member_deny_overwrites])

\* Guild::member_permissions
MemberPermissions(g, m) ==
    UserPermissionsInHelper(None, m.user_id, m.roles, g.id, g.roles, g.owner_id)

\* Guild::user_permissions_in
UserPermissionsIn(g, c, m) ==
    UserPermissionsInHelper(Some(c), m.user_id, m.roles, g.id, g.roles, g.owner_id)

\* The outcome of a call that may panic.
Panic == [panicked |-> TRUE, value |-> PermissionsEmpty]
Returns(v) == [panicked |-> FALSE, value |-> v]

\* Variant: a partial member without a user makes the call panic.
PartialMemberPermissionsInRequiresUser(g, c, member_id, m) ==
    IF m.user = None \/ Unwrap(m.user).id # member_id
    THEN Panic
    ELSE Returns(UserPermissionsInHelper(Some(c), member_id, m.roles,
                                         g.id, g.roles, g.owner_id))

\* Guild::partial_member_permissions_in; member.user is an Option.
PartialMemberPermissionsIn(g, c, member_id, m) ==
    IF IsSome(m.user) /\ Unwrap(m.user).id # member_id
    THEN Panic
    ELSE Returns(UserPermissionsInHelper(Some(c), member_id, m.roles,
                                         g.id, g.roles, g.owner_id))

\* ChannelType, of which the code tells Category from the others.
ChannelTypes == {"Text", "Category"}

\* Variant: the channel's kind is not looked at.
DefaultChannelPredicateAnyKind(g, c, m) ==
    Contains(UserPermissionsIn(g, c, m), {VIEW_CHANNEL})

\* The closure handed to find() by default_channel.
DefaultChannelPredicate(g, c, m) ==
    /\ c.kind # "Category"
    /\ Contains(UserPermissionsIn(g, c, m), {VIEW_CHANNEL})

\* Iterator::find over g.channels, a sequence in the map's iteration order.
RECURSIVE DefaultChannelFind(_, _, _)
DefaultChannelFind(g, m, i) ==
    IF i > Len(g.channels) THEN None
    ELSE IF DefaultChannelPredicate(g, g.channels[i], m) THEN Some(g.channels[i])
    ELSE DefaultChannelFind(g, m, i + 1)

\* Guild::default_channel
DefaultChannel(g, uid) ==
    IF uid \notin DOMAIN g.members THEN None
    ELSE DefaultChannelFind(g, g.members[uid], 1)

(* ----------------------------- member_named ---------------------------- *)

\* A string is the sequence of its characters.  What
\* crate::utils::parse_user_tag(name) returns is an input of member_named:
\* None, or Some of a username and an optional discriminator.

\* The test of the first loop of member_named; discrim is an Option.
UsernameMatch(m, username, discrim) ==
    /\ m.user.name = username
    /\ (discrim = None \/ m.user.discriminator = Unwrap(discrim))

\* The closure of the find() that ends member_named.
NicknameMatch(m, str) == IsSome(m.nick) /\ Unwrap(m.nick) = str

\* The loop `for member in &self.members`, from position i on; members is
\* the member map in its iteration order.
RECURSIVE FindByUsername(_, _, _, _)
FindByUsername(members, i, username, discrim) ==
    IF i > Len(members) THEN None
    ELSE IF UsernameMatch(members[i], username, discrim) THEN Some(members[i])
    ELSE FindByUsername(members, i + 1, username, discrim)

\* self.members.iter().find(..), from position i on.
RECURSIVE FindByNickname(_, _, _)
FindByNickname(members, i, str) ==
    IF i > Len(members) THEN None
    ELSE IF NicknameMatch(members[i], str) THEN Some(members[i])
    ELSE FindByNickname(members, i + 1, str)

\* Guild::member_named, parsed being what parse_user_tag(str) returned
MemberNamed(g, str, parsed) ==
    LET username == IF IsSome(parsed) THEN Unwrap(parsed).username ELSE str
        discrim == IF IsSome(parsed) THEN Some(Unwrap(parsed).discriminator) ELSE None
        by_username == FindByUsername(g.members, 1, username, discrim)
    IN  IF IsSome(by_username) THEN by_username
        ELSE FindByNickname(g.members, 1, str)

(* ------------------------------- state --------------------------------- *)

VARIABLES
    guild,      \* the snapshot: [id, owner_id, roles, members, channels]
    op,         \* the operation whose result is held ("idle" between calls)
    member,     \* its member argument, an Option
    channel,    \* its channel argument, an Option
    lhs_id,     \* greater_member_hierarchy: first user ID (0 when unused)
    rhs_id,     \* greater_member_hierarchy: second user ID (0 when unused)
    ret_perms,  \* the Permissions returned
    ret_role,   \* the Option<&Role> returned
    ret_user,   \* the Option<UserId> returned
    user_id,    \* default_channel: uid; partial_member_permissions_in:
                \* member_id (0 when unused)
    name,       \* member_named: the string searched for
    ret_channel, \* the Option<&GuildChannel> returned
    ret_member, \* the Option<&Member> returned
    panicked,   \* TRUE when the call panicked instead of returning
    calls       \* the calls in flight on their own threads

vars == <<guild, op, member, channel, lhs_id, rhs_id, ret_perms, ret_role, ret_user,
          user_id, name, ret_channel, ret_member, panicked, calls>>

\* Every role store over the IDs of RoleIds, a role's key being its ID.
RoleStores(Pos, Perm) ==
    UNION {
        {[r \in D |-> [id |-> r, position |-> f[r].position,
                       permissions |-> f[r].permissions]] :
            f \in [D -> [position : Pos, permissions : Perm]]} :
        D \in SUBSET RoleIds}

RoleLists == SeqsUpTo(RoleIds, MaxRoles)

\* Every member map over the IDs of UserIds, a member's key being its user ID.
MemberMaps ==
    UNION {
        {[u \in D |-> [user_id |-> u, roles |-> f[u]]] : f \in [D -> RoleLists]} :
        D \in SUBSET UserIds}

NoMembers == [u \in {} |-> 0]

Start ==
    /\ op = "idle"
    /\ member = None
    /\ channel = None
    /\ lhs_id = 0
    /\ rhs_id = 0
    /\ ret_perms = PermissionsEmpty
    /\ ret_role = None
    /\ ret_user = None
    /\ user_id = 0
    /\ name = <<>>
    /\ ret_channel = None
    /\ ret_member = None
    /\ panicked = FALSE
    /\ calls = <<>>

(* ------------------------ hierarchy specification ---------------------- *)

\* The permission sets and the channels play no part in the hierarchy: every
\* role carries the empty set and the channel map is empty.
InitHier ==
    /\ \E i \in GuildIds, o \in OwnerIds,
          rs \in RoleStores(Positions, {PermissionsEmpty}), ms \in MemberMaps :
            guild = [id |-> i, owner_id |-> o, roles |-> rs, members |-> ms,
                     channels |-> <<>>]
    /\ Start

\* Variant: the call drops from the member's role list the IDs that do not
\* resolve, and stores the shortened list in the guild.
DoMemberHighestRolePrunes ==
    /\ op = "idle"
    /\ \E u \in DOMAIN guild.members :
        /\ op' = "member_highest_role"
        /\ member' = Some(guild.members[u])
        /\ ret_role' = MemberHighestRoleIn(guild.roles, guild.members[u])
        /\ guild' = [guild EXCEPT !.members[u].roles =
                        SelectSeq(@, LAMBDA r : r \in DOMAIN guild.roles)]
        /\ UNCHANGED <<channel, lhs_id, rhs_id, ret_perms, ret_user, user_id, name,
                       ret_channel, ret_member, panicked, calls>>

\* guild.member_highest_role(&member), for a member of the guild
DoMemberHighestRole ==
    /\ op = "idle"
    /\ \E u \in DOMAIN guild.members :
        /\ op' = "member_highest_role"
        /\ member' = Some(guild.members[u])
        /\ ret_role' = MemberHighestRoleIn(guild.roles, guild.members[u])
        /\ channel' = None
        /\ lhs_id' = 0
        /\ rhs_id' = 0
        /\ ret_perms' = PermissionsEmpty
        /\ ret_user' = None
        /\ user_id' = 0
        /\ name' = <<>>
        /\ ret_channel' = None
        /\ ret_member' = None
        /\ panicked' = FALSE
        /\ UNCHANGED <<guild, calls>>

\* guild.greater_member_hierarchy(lhs_id, rhs_id)
DoGreaterMemberHierarchy ==
    /\ op = "idle"
    /\ \E a \in UserIds, b \in UserIds :
        /\ op' = "greater_member_hierarchy"
        /\ lhs_id' = a
        /\ rhs_id' = b
        /\ ret_user' = GreaterMemberHierarchy(guild, a, b)
        /\ member' = None
        /\ channel' = None
        /\ ret_perms' = PermissionsEmpty
        /\ ret_role' = None
        /\ user_id' = 0
        /\ name' = <<>>
        /\ ret_channel' = None
        /\ ret_member' = None
        /\ panicked' = FALSE
        /\ UNCHANGED <<guild, calls>>

\* The caller takes the result of a call that has returned; the guild is
\* ready for the next call.
Return ==
    /\ op \notin {"idle", "edit_pending"}
    /\ op' = "idle"
    /\ member' = None
    /\ channel' = None
    /\ lhs_id' = 0
    /\ rhs_id' = 0
    /\ ret_perms' = PermissionsEmpty
    /\ ret_role' = None
    /\ ret_user' = None
    /\ user_id' = 0
    /\ name' = <<>>
    /\ ret_channel' = None
    /\ ret_member' = None
    /\ panicked' = FALSE
    /\ UNCHANGED <<guild, calls>>

NextHier == DoMemberHighestRole \/ DoGreaterMemberHierarchy \/ Return

SpecHier == InitHier /\ [][NextHier]_vars

(* ----------------------- permission specification ---------------------- *)

PermUserIds == 1..NumPermUsers

\* The permission computation compares user IDs for equality only, so the
\* member it is asked about is user 1; the owner and the member overwrites
\* range over every user.
TestedUserIds == {1}

\* Allow sets and deny sets of the overwrites.
AllowSets == {PermissionsEmpty, {VIEW_CHANNEL}, {ADMINISTRATOR}}
DenySets == {PermissionsEmpty, {VIEW_CHANNEL}, PermissionsAll}


\* The Member values handed to the permission operations.
PermMembers == [user_id : TestedUserIds, roles : RoleLists]

\* PermissionOverwrite: kind is PermissionOverwriteType::Member(id) or ::Role(id).
Overwrites ==
    [kind : {"Member"}, id : PermUserIds, allow : AllowSets, deny : DenySets]
    \cup
    [kind : {"Role"}, id : RoleIds, allow : AllowSets, deny : DenySets]

Channels == [permission_overwrites : SeqsUpTo(Overwrites, MaxOverwrites)]

\* The positions, the member map and the channel map play no part in the
\* permission computation: every role has position 0 and the maps are empty.
InitPerm ==
    /\ \E i \in GuildIds, o \in PermUserIds, rs \in RoleStores({0}, PermissionSets) :
            guild = [id |-> i, owner_id |-> o, roles |-> rs, members |-> NoMembers,
                     channels |-> <<>>]
    /\ Start

\* guild.member_permissions(&member)
DoMemberPermissions ==
    /\ op = "idle"
    /\ \E m \in PermMembers :
        /\ op' = "member_permissions"
        /\ member' = Some(m)
        /\ channel' = None
        /\ ret_perms' = MemberPermissions(guild, m)
        /\ lhs_id' = 0
        /\ rhs_id' = 0
        /\ ret_role' = None
        /\ ret_user' = None
        /\ user_id' = 0
        /\ name' = <<>>
        /\ ret_channel' = None
        /\ ret_member' = None
        /\ panicked' = FALSE
        /\ UNCHANGED <<guild, calls>>

\* guild.user_permissions_in(&channel, &member)
DoUserPermissionsIn ==
    /\ op = "idle"
    /\ \E m \in PermMembers, c \in Channels :
        /\ op' = "user_permissions_in"
        /\ member' = Some(m)
        /\ channel' = Some(c)
        /\ ret_perms' = UserPermissionsIn(guild, c, m)
        /\ lhs_id' = 0
        /\ rhs_id' = 0
        /\ ret_role' = None
        /\ ret_user' = None
        /\ user_id' = 0
        /\ name' = <<>>
        /\ ret_channel' = None
        /\ ret_member' = None
        /\ panicked' = FALSE
        /\ UNCHANGED <<guild, calls>>

NextPerm == DoMemberPermissions \/ DoUserPermissionsIn \/ Return

SpecPerm == InitPerm /\ [][NextPerm]_vars

(* ---- permission calls on channels with one overwrite for each level --- *)

MaxLevelOverwrites == 3

\* Overwrites that allow or deny VIEW_CHANNEL, or both, keyed by user 1, by
\* role 1 or by the guild ID.
LevelOverwrites ==
    {o \in Overwrites :
        /\ o.kind = "Member" => o.id = 1
        /\ o.kind = "Role" => o.id \in {1} \cup GuildIds
        /\ o.allow \subseteq {VIEW_CHANNEL}
        /\ o.deny \subseteq {VIEW_CHANNEL}}

LevelChannels ==
    [permission_overwrites : SeqsUpTo(LevelOverwrites, MaxLevelOverwrites)]

\* The roles grant nothing or VIEW_CHANNEL.
InitLevels ==
    /\ \E i \in GuildIds, o \in PermUserIds,
          rs \in RoleStores({0}, {PermissionsEmpty, {VIEW_CHANNEL}}) :
            guild = [id |-> i, owner_id |-> o, roles |-> rs, members |-> NoMembers,
                     channels |-> <<>>]
    /\ Start

\* guild.user_permissions_in(&channel, &member), the channel holding up to
\* MaxLevelOverwrites overwrites
DoUserPermissionsInLevels ==
    /\ op = "idle"
    /\ \E m \in PermMembers, c \in LevelChannels :
        /\ op' = "user_permissions_in"
        /\ member' = Some(m)
        /\ channel' = Some(c)
        /\ ret_perms' = UserPermissionsIn(guild, c, m)
        /\ lhs_id' = 0
        /\ rhs_id' = 0
        /\ ret_role' = None
        /\ ret_user' = None
        /\ user_id' = 0
        /\ name' = <<>>
        /\ ret_channel' = None
        /\ ret_member' = None
        /\ panicked' = FALSE
        /\ UNCHANGED <<guild, calls>>

NextLevels == DoUserPermissionsInLevels \/ Return

SpecLevels == InitLevels /\ [][NextLevels]_vars

(* ------------------------- engine specification ----------------------- *)

\* A guild with members and channels, on which every operation is called
\* with members and channels of the guild.

NumEngineRoles == 2
NumEngineChannels == 2
MaxEngineOverwrites == 1

EngineRoleIds == 1..NumEngineRoles
ChannelIds == 1..NumEngineChannels

\* The role lists of the members: one role ID at most, which may not resolve.
EngineRoleLists == SeqsUpTo(RoleIds, 1)

\* User 1 with any role list, user 2 without roles, each present or not.
EngineMemberMaps ==
    {ms \in MemberMaps :
        /\ DOMAIN ms \subseteq PermUserIds
        /\ \A u \in DOMAIN ms :
              ms[u].roles \in (IF u = 1 THEN EngineRoleLists ELSE {<<>>})}

\* The overwrites allow or deny VIEW_CHANNEL to user 1 or to a role.
EngineOverwrites ==
    {o \in Overwrites :
        /\ o.kind = "Member" => o.id = 1
        /\ o.kind = "Role" => o.id \in EngineRoleIds
        /\ <<o.allow, o.deny>> \in {<<{VIEW_CHANNEL}, {}>>, <<{}, {VIEW_CHANNEL}>>}}

EngineChannels ==
    [id : ChannelIds, kind : ChannelTypes,
     permission_overwrites : SeqsUpTo(EngineOverwrites, MaxEngineOverwrites)]

\* The channel map in its iteration order: the IDs are distinct and come in
\* any order.
ChannelMaps ==
    {cs \in SeqsUpTo(EngineChannels, NumEngineChannels) :
        \A i, j \in 1..Len(cs) : cs[i].id = cs[j].id => i = j}

\* The partial members handed to partial_member_permissions_in.
PartialMembers ==
    [user : {None} \cup {Some([id |-> u]) : u \in PermUserIds},
     roles : {<<>>, <<1>>}]

InitEngine ==
    /\ \E i \in GuildIds, o \in PermUserIds,
          rs \in RoleStores({0}, {PermissionsEmpty, {VIEW_CHANNEL}}),
          ms \in EngineMemberMaps, cs \in ChannelMaps :
            /\ DOMAIN rs \subseteq EngineRoleIds
            /\ guild = [id |-> i, owner_id |-> o, roles |-> rs, members |-> ms,
                        channels |-> cs]
    /\ Start

\* guild.member_permissions(&member), for a member of the guild
DoMemberPermissionsOfMember ==
    /\ op = "idle"
    /\ \E u \in DOMAIN guild.members :
        /\ op' = "member_permissions"
        /\ member' = Some(guild.members[u])
        /\ ret_perms' = MemberPermissions(guild, guild.members[u])
        /\ UNCHANGED <<guild, channel, lhs_id, rhs_id, ret_role, ret_user, user_id,
                       name, ret_channel, ret_member, panicked, calls>>

\* guild.user_permissions_in(&channel, &member), for a channel and a member
\* of the guild
DoUserPermissionsInOwnChannel ==
    /\ op = "idle"
    /\ \E u \in DOMAIN guild.members, i \in 1..Len(guild.channels) :
        /\ op' = "user_permissions_in"
        /\ member' = Some(guild.members[u])
        /\ channel' = Some(guild.channels[i])
        /\ ret_perms' = UserPermissionsIn(guild, guild.channels[i], guild.members[u])
        /\ UNCHANGED <<guild, lhs_id, rhs_id, ret_role, ret_user, user_id,
                       name, ret_channel, ret_member, panicked, calls>>

\* guild.partial_member_permissions_in(&channel, member_id, &member), for a
\* channel of the guild
DoPartialMemberPermissionsIn ==
    /\ op = "idle"
    /\ \E i \in 1..Len(guild.channels), member_id \in PermUserIds, m \in PartialMembers :
        LET outcome == PartialMemberPermissionsIn(guild, guild.channels[i], member_id, m)
        IN  /\ op' = "partial_member_permissions_in"
            /\ member' = Some(m)
            /\ channel' = Some(guild.channels[i])
            /\ user_id' = member_id
            /\ panicked' = outcome.panicked
            /\ ret_perms' = outcome.value
            /\ UNCHANGED <<guild, lhs_id, rhs_id, ret_role, ret_user,
                           name, ret_channel, ret_member, calls>>

\* guild.default_channel(uid)
DoDefaultChannel ==
    /\ op = "idle"
    /\ \E uid \in PermUserIds :
        /\ op' = "default_channel"
        /\ user_id' = uid
        /\ ret_channel' = DefaultChannel(guild, uid)
        /\ UNCHANGED <<guild, member, channel, lhs_id, rhs_id, ret_perms, ret_role,
                       ret_user, name, ret_member, panicked, calls>>

\* guild.edit(&http, builder), first poll: the request is sent and the
\* future yields at `self.id.edit(http, builder).await` with the guild
\* untouched.  The future holds the `&mut` borrow of the guild, so no other
\* call reads or writes the guild while the answer is out.
DoEditRequest ==
    /\ op = "idle"
    /\ op' = "edit_pending"
    /\ UNCHANGED <<guild, member, channel, lhs_id, rhs_id, ret_perms, ret_role,
                   ret_user, user_id, name, ret_channel, ret_member, panicked,
                   calls>>

\* guild.edit, the poll after the answer is in: an error leaves through `?`
\* with the guild untouched, or the guild of the answer gives the guild its
\* owner_id and its roles (the other fields assigned are not part of the
\* state here) and the call returns Ok(()).
DoEditResume ==
    /\ op = "edit_pending"
    /\ \/ /\ op' = "edit_err"
          /\ UNCHANGED guild
       \/ \E o \in PermUserIds,
             rs \in RoleStores({0}, {PermissionsEmpty, {VIEW_CHANNEL}}) :
            /\ DOMAIN rs \subseteq EngineRoleIds
            /\ op' = "edit"
            /\ guild' = [guild EXCEPT !.owner_id = o, !.roles = rs]
    /\ UNCHANGED <<member, channel, lhs_id, rhs_id, ret_perms, ret_role, ret_user,
                   user_id, name, ret_channel, ret_member, panicked, calls>>

\* The future of guild.edit is dropped while the answer is out: the
\* assignments never run and the borrow of the guild ends.
DoEditDrop ==
    /\ op = "edit_pending"
    /\ op' = "idle"
    /\ UNCHANGED <<guild, member, channel, lhs_id, rhs_id, ret_perms, ret_role,
                   ret_user, user_id, name, ret_channel, ret_member, panicked,
                   calls>>

NextEngine ==
    \/ DoEditRequest
    \/ DoEditResume
    \/ DoEditDrop
    \/ DoMemberPermissionsOfMember
    \/ DoUserPermissionsInOwnChannel
    \/ DoPartialMemberPermissionsIn
    \/ DoDefaultChannel
    \/ DoMemberHighestRole
    \/ DoGreaterMemberHierarchy
    \/ Return

SpecEngine == InitEngine /\ [][NextEngine]_vars

(* ---------------------- member_named specification -------------------- *)

MaxNameLen == 3
NumNamedMembers == 2

Characters == {"a", "#", "1"}

\* The strings member_named is asked for.
SearchStrings == SeqsUpTo(Characters, MaxNameLen)

UserNames == {<<"a">>, <<"1">>, <<"a", "#", "1">>}
Nicknames == {None, Some(<<"a">>), Some(<<"a", "#", "1">>)}
Discriminators == {None, Some(1)}

NamedMembers ==
    [user : [id : 1..NumNamedMembers, name : UserNames, discriminator : Discriminators],
     nick : Nicknames]

\* The member map in its iteration order: the user IDs are distinct and
\* come in any order.
NamedMemberMaps ==
    {ms \in SeqsUpTo(NamedMembers, NumNamedMembers) :
        \A i, j \in 1..Len(ms) : ms[i].user.id = ms[j].user.id => i = j}

\* Roles and channels play no part in member_named.
InitNamed ==
    /\ \E i \in GuildIds, ms \in NamedMemberMaps :
            guild = [id |-> i, owner_id |-> 1, roles |-> NoMembers, members |-> ms,
                     channels |-> <<>>]
    /\ Start

\* The values parse_user_tag(str) may return: None, or a slice of str (here
\* one that starts where str starts) with an optional discriminator.
ParsedTags(str) ==
    {None} \cup
    {Some([username |-> SubSeq(str, 1, n), discriminator |-> d]) :
        n \in 0..Len(str), d \in Discriminators}

\* guild.member_named(name)
DoMemberNamed ==
    /\ op = "idle"
    /\ \E str \in SearchStrings :
       \E parsed \in ParsedTags(str) :
        /\ op' = "member_named"
        /\ name' = str
        /\ ret_member' = MemberNamed(guild, str, parsed)
        /\ UNCHANGED <<guild, member, channel, lhs_id, rhs_id, ret_perms, ret_role,
                       ret_user, user_id, ret_channel, panicked, calls>>

NextNamed == DoMemberNamed \/ Return

SpecNamed == InitNamed /\ [][NextNamed]_vars

(* ---------------------- concurrent specification ---------------------- *)

\* Calls run on threads of their own and interleave step by step; each was
\* handed the guild as it was when the call began. An external process
\* replaces the guild wholesale between any two steps.

NumCalls == 2

Procs == 1..NumCalls

\* The snapshots the external process installs: users 1 and 2 are members,
\* with role 1 and role 3; the owner, and the position and the permissions of
\* role 1, differ from one snapshot to another.
ConcGuilds ==
    {[id |-> 2, owner_id |-> o,
      roles |-> [r \in RoleIds |->
                    [id |-> r,
                     position |-> (IF r = 1 THEN pos
                                   ELSE IF r = 2 THEN 0 ELSE MaxPosition),
                     permissions |-> (IF r = 1 THEN perm ELSE PermissionsEmpty)]],
      members |-> [u \in PermUserIds |->
                    [user_id |-> u, roles |-> (IF u = 1 THEN <<1>> ELSE <<3>>)]],
      channels |-> <<>>] :
        o \in {1, 3}, pos \in Positions, perm \in {PermissionsEmpty, {VIEW_CHANNEL}}}

\* The channels handed to the concurrent permission calls.
ConcChannels ==
    {c \in Channels :
        \A i \in 1..Len(c.permission_overwrites) :
            LET o == c.permission_overwrites[i]
            IN  /\ o.id = i
                /\ o.kind = (IF i = 1 THEN "Member" ELSE "Role")
                /\ o.allow = PermissionsEmpty
                /\ o.deny = {VIEW_CHANNEL}}

IdleCall ==
    [pc |-> "idle", snapshot |-> None, member |-> None, channel |-> None,
     lhs |-> None, rhs |-> None, i |-> 0, acc |-> NoOverwrites,
     ret_perms |-> PermissionsEmpty, ret_user |-> None]

\* The guild a call reads: the one it was handed.
HandedSnapshotStale(p) == guild
HandedSnapshot(p) == Unwrap(calls[p].snapshot)

InitConc ==
    /\ guild \in ConcGuilds
    /\ calls = [p \in Procs |-> IdleCall]
    /\ op = "idle"
    /\ member = None
    /\ channel = None
    /\ lhs_id = 0
    /\ rhs_id = 0
    /\ ret_perms = PermissionsEmpty
    /\ ret_role = None
    /\ ret_user = None
    /\ user_id = 0
    /\ name = <<>>
    /\ ret_channel = None
    /\ ret_member = None
    /\ panicked = FALSE

Sequential ==
    <<op, member, channel, lhs_id, rhs_id, ret_perms, ret_role, ret_user,
      user_id, name, ret_channel, ret_member, panicked>>

\* A thread is handed the guild and calls user_permissions_in on it.
BeginUserPermissionsIn(p) ==
    /\ calls[p].pc = "idle"
    /\ \E u \in DOMAIN guild.members, c \in ConcChannels :
          calls' = [calls EXCEPT ![p] =
                       [IdleCall EXCEPT !.pc = "overwrites",
                                        !.snapshot = Some(guild),
                                        !.member = Some(guild.members[u]),
                                        !.channel = Some(c),
                                        !.i = 1]]
    /\ UNCHANGED <<guild, Sequential>>

\* One iteration of the loop over the channel's overwrites.
OverwriteIteration(p) ==
    LET call == calls[p]
        overwrites == Unwrap(call.channel).permission_overwrites
    IN  /\ call.pc = "overwrites"
        /\ call.i <= Len(overwrites)
        /\ calls' = [calls EXCEPT
                       ![p].acc = OverwriteStep(call.acc, overwrites[call.i],
                                                Unwrap(call.member).user_id,
                                                Unwrap(call.member).roles,
                                                HandedSnapshot(p).id),
                       ![p].i = call.i + 1]
        /\ UNCHANGED <<guild, Sequential>>

\* The loop is over: calculate_permissions on the accumulators and on the
\* roles and the owner of the guild.
Calculate(p) ==
    LET call == calls[p]
        g == HandedSnapshot(p)
        m == Unwrap(call.member)
    IN  /\ call.pc = "overwrites"
        /\ call.i > Len(Unwrap(call.channel).permission_overwrites)
        /\ calls' = [calls EXCEPT
                       ![p].pc = "done",
                       ![p].ret_perms = CalculatePermissions(
                          [is_guild_owner            |-> IsGuildOwner(m.user_id, g.owner_id),
                           everyone_permissions      |-> EveryonePermissions(g.id, g.roles),
                           user_roles_permissions    |-> UserRolesPermissions(m.roles, g.roles),
                           everyone_allow_overwrites |-> call.acc.everyone_allow_overwrites,
                           everyone_deny_overwrites  |-> call.acc.everyone_deny_overwrites,
                           roles_allow_overwrites    |-> call.acc.roles_allow_overwrites,
                           roles_deny_overwrites     |-> call.acc.roles_deny_overwrites,
                           member_allow_overwrites   |-> call.acc.member_allow_overwrites,
                           member_deny_overwrites    |-> call.acc.member_deny_overwrites])]
        /\ UNCHANGED <<guild, Sequential>>

\* A thread is handed the guild and calls greater_member_hierarchy on it.
BeginGreaterMemberHierarchy(p) ==
    /\ calls[p].pc = "idle"
    /\ \E a \in PermUserIds, b \in PermUserIds :
          calls' = [calls EXCEPT ![p] =
                       [IdleCall EXCEPT !.pc = "lookup",
                                        !.snapshot = Some(guild),
                                        !.lhs = Some(a),
                                        !.rhs = Some(b)]]
    /\ UNCHANGED <<guild, Sequential>>

\* The two members.get(..)? of greater_member_hierarchy.
LookupMembers(p) ==
    LET call == calls[p]
        g == HandedSnapshot(p)
    IN  /\ call.pc = "lookup"
        /\ IF {Unwrap(call.lhs), Unwrap(call.rhs)} \subseteq DOMAIN g.members
           THEN calls' = [calls EXCEPT ![p].pc = "compare"]
           ELSE calls' = [calls EXCEPT ![p].pc = "done", ![p].ret_user = None]
        /\ UNCHANGED <<guild, Sequential>>

\* The highest roles of the two members and their comparison.
CompareHighestRoles(p) ==
    LET call == calls[p]
        g == HandedSnapshot(p)
        lhs == g.members[Unwrap(call.lhs)]
        rhs == g.members[Unwrap(call.rhs)]
    IN  /\ call.pc = "compare"
        /\ calls' = [calls EXCEPT
                       ![p].pc = "done",
                       ![p].ret_user = GreaterMemberHierarchyIn(
                                           MemberHighestRoleIn(g.roles, lhs),
                                           MemberHighestRoleIn(g.roles, rhs),
                                           g.owner_id, lhs, rhs)]
        /\ UNCHANGED <<guild, Sequential>>

\* The thread takes the result of its call.
TakeResult(p) ==
    /\ calls[p].pc = "done"
    /\ calls' = [calls EXCEPT ![p] = IdleCall]
    /\ UNCHANGED <<guild, Sequential>>

\* The external process installs another snapshot in one step; the guilds
\* handed to the calls in flight stay what they are.
ReplaceSnapshot ==
    /\ \E g \in ConcGuilds : g # guild /\ guild' = g
    /\ UNCHANGED <<calls, Sequential>>

NextConc ==
    \/ \E p \in Procs :
          \/ BeginUserPermissionsIn(p)
          \/ OverwriteIteration(p)
          \/ Calculate(p)
          \/ BeginGreaterMemberHierarchy(p)
          \/ LookupMembers(p)
          \/ CompareHighestRoles(p)
          \/ TakeResult(p)
    \/ ReplaceSnapshot

SpecConc == InitConc /\ [][NextConc]_vars

(* ------------------- claims: permission computation -------------------- *)

Range(s) == {s[i] : i \in 1..Len(s)}

TheMember == Unwrap(member)
TheOverwrites == Unwrap(channel).permission_overwrites

IsPermissionCall == op \in {"member_permissions", "user_permissions_in"}

CalledByOwner == TheMember.user_id = guild.owner_id

\* The @everyone role's permissions united with the permissions of the
\* member's roles that resolve in the store.
GuildLevelAggregate ==
    (IF guild.id \in DOMAIN guild.roles
     THEN guild.roles[guild.id].permissions ELSE {})
    \cup UNION {guild.roles[r].permissions :
                    r \in Range(TheMember.roles) \cap DOMAIN guild.roles}

NonOwnerWithoutAdministrator ==
    /\ ~CalledByOwner
    /\ ADMINISTRATOR \notin GuildLevelAggregate

\* The positions of the overwrites keyed by the member's own user ID.
OwnOverwriteIndices ==
    {i \in 1..Len(TheOverwrites) :
        TheOverwrites[i].kind = "Member" /\ TheOverwrites[i].id = TheMember.user_id}

\* The bits the member-specific overwrite denies without allowing; when the
\* list holds several overwrites keyed by the member, the one in force is
\* the last.
OwnDeniedNotAllowed ==
    IF OwnOverwriteIndices = {} THEN {}
    ELSE LET last == CHOOSE i \in OwnOverwriteIndices :
                        \A j \in OwnOverwriteIndices : j <= i
         IN  TheOverwrites[last].deny \ TheOverwrites[last].allow

\* C1: when the member's user ID is the guild's owner ID, member_permissions
\* and user_permissions_in return the full permission set, whatever the
\* roles and the overwrites.
C1_OwnerHasAll ==
    (IsPermissionCall /\ CalledByOwner) => ret_perms = PermissionsAll

\* C1 witness: the owner, with no permission from any role and an overwrite
\* keyed by the owner that denies every flag, still gets every flag.
C1_Witness ==
    /\ op = "user_permissions_in"
    /\ CalledByOwner
    /\ GuildLevelAggregate = {}
    /\ \E i \in OwnOverwriteIndices : TheOverwrites[i].deny = PermissionsAll
    /\ ret_perms = PermissionsAll

\* C2: a member who is not the owner and whose guild-level aggregate
\* contains ADMINISTRATOR gets the full permission set, whatever overwrites
\* the channel carries.
C2_AdministratorHasAll ==
    (IsPermissionCall /\ ~CalledByOwner /\ ADMINISTRATOR \in GuildLevelAggregate)
        => ret_perms = PermissionsAll

\* C2 witness: ADMINISTRATOR comes from a role of the member (not from
\* @everyone), VIEW_CHANNEL from no role, and both the @everyone overwrite
\* and the member's own overwrite deny every flag.
C2_Witness ==
    /\ op = "user_permissions_in"
    /\ ~CalledByOwner
    /\ GuildLevelAggregate = {ADMINISTRATOR}
    /\ guild.id \in DOMAIN guild.roles
    /\ guild.roles[guild.id].permissions = {}
    /\ \E i \in OwnOverwriteIndices : TheOverwrites[i].deny = PermissionsAll
    /\ \E i \in 1..Len(TheOverwrites) :
          /\ TheOverwrites[i].kind = "Role"
          /\ TheOverwrites[i].id = guild.id
          /\ TheOverwrites[i].deny = PermissionsAll
    /\ ret_perms = PermissionsAll

\* C3: for a member who is neither the owner nor an administrator at guild
\* level, no bit that the overwrite keyed by the member's own user ID denies
\* without allowing is in the result of user_permissions_in.
C3_MemberOverwriteWins ==
    (op = "user_permissions_in" /\ NonOwnerWithoutAdministrator)
        => OwnDeniedNotAllowed \cap ret_perms = {}

\* C3 witness: a role of the member grants VIEW_CHANNEL, a role overwrite the
\* member matches allows it, the member's own overwrite denies it, and the
\* result lacks it.
C3_Witness ==
    /\ op = "user_permissions_in"
    /\ NonOwnerWithoutAdministrator
    /\ VIEW_CHANNEL \in GuildLevelAggregate
    /\ \E i \in 1..Len(TheOverwrites) :
          /\ TheOverwrites[i].kind = "Role"
          /\ TheOverwrites[i].id # guild.id
          /\ TheOverwrites[i].id \in Range(TheMember.roles)
          /\ VIEW_CHANNEL \in TheOverwrites[i].allow
    /\ VIEW_CHANNEL \in OwnDeniedNotAllowed
    /\ VIEW_CHANNEL \notin ret_perms

\* C4 as stated: every bit allowed by some role overwrite whose role ID is in
\* the member's role list is in the result, unless the member's own overwrite
\* denies it without allowing it.
C4_AsStated ==
    (op = "user_permissions_in" /\ NonOwnerWithoutAdministrator)
        => \A i \in 1..Len(TheOverwrites) :
              (/\ TheOverwrites[i].kind = "Role"
               /\ TheOverwrites[i].id \in Range(TheMember.roles))
                  => TheOverwrites[i].allow \subseteq (ret_perms \cup OwnDeniedNotAllowed)

\* C4 (amended): every bit allowed by some role overwrite whose role ID is in
\* the member's role list and is not the guild ID is in the result, even if
\* another matching role overwrite denies it, unless the member's own
\* overwrite denies it without allowing it.
C4_RoleAllowBeatsRoleDeny ==
    (op = "user_permissions_in" /\ NonOwnerWithoutAdministrator)
        => \A i \in 1..Len(TheOverwrites) :
              (/\ TheOverwrites[i].kind = "Role"
               /\ TheOverwrites[i].id # guild.id
               /\ TheOverwrites[i].id \in Range(TheMember.roles))
                  => TheOverwrites[i].allow \subseteq (ret_perms \cup OwnDeniedNotAllowed)

\* C4 witness: the member holds two roles other than @everyone; the overwrite
\* of one denies VIEW_CHANNEL, the overwrite of the other allows it, no role
\* grants it at guild level, and the result contains it.
C4_Witness ==
    /\ op = "user_permissions_in"
    /\ NonOwnerWithoutAdministrator
    /\ VIEW_CHANNEL \notin GuildLevelAggregate
    /\ \E i, j \in 1..Len(TheOverwrites) :
          /\ TheOverwrites[i].kind = "Role"
          /\ TheOverwrites[j].kind = "Role"
          /\ TheOverwrites[i].id # TheOverwrites[j].id
          /\ {TheOverwrites[i].id, TheOverwrites[j].id} \subseteq
                (Range(TheMember.roles) \ {guild.id})
          /\ VIEW_CHANNEL \in TheOverwrites[i].deny \ TheOverwrites[i].allow
          /\ VIEW_CHANNEL \in TheOverwrites[j].allow \ TheOverwrites[j].deny
    /\ VIEW_CHANNEL \in ret_perms

(* ------------------------- claims: hierarchy --------------------------- *)

IsHierarchyCall == op = "greater_member_hierarchy"

BothAreMembers == {lhs_id, rhs_id} \subseteq DOMAIN guild.members

\* The highest role of the member with user ID u, as member_highest_role
\* gives it.
HighestOf(u) == MemberHighestRoleIn(guild.roles, guild.members[u])

\* C6: member_highest_role returns None exactly when none of the member's
\* role IDs resolves in the role store; otherwise it returns a role of the
\* store whose ID is in the member's role list.
C6_HighestRoleNoneIffUnresolvable ==
    op = "member_highest_role" =>
        /\ (ret_role = None) <=>
              (Range(TheMember.roles) \cap DOMAIN guild.roles = {})
        /\ IsSome(ret_role) =>
              /\ Unwrap(ret_role).id \in Range(TheMember.roles)
              /\ Unwrap(ret_role).id \in DOMAIN guild.roles
              /\ guild.roles[Unwrap(ret_role).id] = Unwrap(ret_role)

\* C6 witness: the store holds roles, the member's role list is not empty,
\* none of its IDs resolves, and the result is None.
C6_Witness ==
    /\ op = "member_highest_role"
    /\ DOMAIN guild.roles # {}
    /\ Len(TheMember.roles) = MaxRoles
    /\ Range(TheMember.roles) \cap DOMAIN guild.roles = {}
    /\ ret_role = None

\* C7: greater_member_hierarchy(X, X) is None for every user X.
C7_SameUserIsNone ==
    (IsHierarchyCall /\ lhs_id = rhs_id) => ret_user = None

\* C7 witness: X is the guild owner, is a member and holds a role that
\* resolves.
C7_Witness ==
    /\ IsHierarchyCall
    /\ lhs_id = rhs_id
    /\ lhs_id = guild.owner_id
    /\ lhs_id \in DOMAIN guild.members
    /\ IsSome(HighestOf(lhs_id))
    /\ ret_user = None

\* C8: greater_member_hierarchy is None whenever one of the two user IDs has
\* no entry in the member map.
C8_MissingMemberIsNone ==
    (IsHierarchyCall /\ ~BothAreMembers) => ret_user = None

\* C8 witness: the left-hand user is the owner and a member, the right-hand
\* user is another user with no entry in the member map.
C8_Witness ==
    /\ IsHierarchyCall
    /\ lhs_id = guild.owner_id
    /\ lhs_id \in DOMAIN guild.members
    /\ rhs_id # lhs_id
    /\ rhs_id \notin DOMAIN guild.members
    /\ ret_user = None

\* C9: when both users are members, differ, and one of them is the guild
\* owner, greater_member_hierarchy returns the owner's user ID.
C9_OwnerWins ==
    (/\ IsHierarchyCall
     /\ BothAreMembers
     /\ lhs_id # rhs_id
     /\ guild.owner_id \in {lhs_id, rhs_id})
        => ret_user = Some(guild.owner_id)

\* C9 witness: the owner is the right-hand user and has no role that
\* resolves; the left-hand member's highest role has the greatest position.
C9_Witness ==
    /\ IsHierarchyCall
    /\ BothAreMembers
    /\ rhs_id = guild.owner_id
    /\ lhs_id # rhs_id
    /\ HighestOf(rhs_id) = None
    /\ IsSome(HighestOf(lhs_id))
    /\ Unwrap(HighestOf(lhs_id)).position = MaxPosition
    /\ ret_user = Some(rhs_id)

\* Two distinct members, neither the owner, whose highest roles exist, have
\* the same position and different IDs.
TiedOnPosition ==
    /\ IsHierarchyCall
    /\ BothAreMembers
    /\ lhs_id # rhs_id
    /\ guild.owner_id \notin {lhs_id, rhs_id}
    /\ IsSome(HighestOf(lhs_id))
    /\ IsSome(HighestOf(rhs_id))
    /\ Unwrap(HighestOf(lhs_id)).position = Unwrap(HighestOf(rhs_id)).position
    /\ Unwrap(HighestOf(lhs_id)).id # Unwrap(HighestOf(rhs_id)).id

\* The user whose highest role has the numerically smaller ID.
HolderOfSmallerRoleId ==
    IF Unwrap(HighestOf(lhs_id)).id < Unwrap(HighestOf(rhs_id)).id
    THEN lhs_id ELSE rhs_id

\* C10 as stated: for every shared position, the member whose highest role
\* has the smaller ID is returned.
C10_AsStated ==
    TiedOnPosition => ret_user = Some(HolderOfSmallerRoleId)

\* C10 (amended): for every shared position other than 0, the member whose
\* highest role has the smaller ID is returned; at shared position 0 the
\* result is None.
C10_SmallerRoleIdWinsTie ==
    TiedOnPosition =>
        IF Unwrap(HighestOf(lhs_id)).position = 0
        THEN ret_user = None
        ELSE ret_user = Some(HolderOfSmallerRoleId)

\* C10 witness: the shared position is not 0, the right-hand member's highest
\* role has the smaller ID, and the right-hand member is returned.
C10_Witness ==
    /\ TiedOnPosition
    /\ Unwrap(HighestOf(lhs_id)).position > 0
    /\ Unwrap(HighestOf(rhs_id)).id < Unwrap(HighestOf(lhs_id)).id
    /\ ret_user = Some(rhs_id)

(* --------------- claims: permission computation, continued ------------- *)

\* The role store with an @everyone role of empty permissions added when it
\* has none.
WithEmptyEveryone(g) ==
    [r \in DOMAIN g.roles \cup {g.id} |->
        IF r \in DOMAIN g.roles THEN g.roles[r]
        ELSE [id |-> r, position |-> 0, permissions |-> PermissionsEmpty]]

\* C11: when the role store has no entry for the @everyone role (the role
\* whose ID is the guild ID), member_permissions and user_permissions_in
\* return what they return on the same guild with that role present and
\* empty: the member's other roles and every overwrite still apply.
C11_MissingEveryoneIsEmpty ==
    (IsPermissionCall /\ guild.id \notin DOMAIN guild.roles)
        => ret_perms = UserPermissionsInHelper(
                           channel, TheMember.user_id, TheMember.roles,
                           guild.id, WithEmptyEveryone(guild), guild.owner_id)

\* C11 witness: the @everyone role is missing, a role of the member grants
\* VIEW_CHANNEL, the overwrite keyed by the guild ID denies VIEW_CHANNEL and
\* allows ADMINISTRATOR, and the result is exactly ADMINISTRATOR.
C11_Witness ==
    /\ op = "user_permissions_in"
    /\ guild.id \notin DOMAIN guild.roles
    /\ ~CalledByOwner
    /\ GuildLevelAggregate = {VIEW_CHANNEL}
    /\ Len(TheOverwrites) = 1
    /\ TheOverwrites[1].kind = "Role"
    /\ TheOverwrites[1].id = guild.id
    /\ TheOverwrites[1].allow = {ADMINISTRATOR}
    /\ VIEW_CHANNEL \in TheOverwrites[1].deny
    /\ ret_perms = {ADMINISTRATOR}

\* C20: member_permissions, for a member who is neither the owner nor an
\* administrator at guild level, returns the @everyone role's permissions
\* (empty when the role is absent) united with the permissions of the
\* member's roles that resolve; role IDs that do not resolve add nothing;
\* and the result is the one user_permissions_in gives for a channel without
\* overwrites.
C20_GuildLevelResult ==
    (op = "member_permissions" /\ NonOwnerWithoutAdministrator)
        => /\ ret_perms = GuildLevelAggregate
           /\ ret_perms = UserPermissionsIn(guild, [permission_overwrites |-> <<>>],
                                            TheMember)

\* C20 witness: the @everyone role grants nothing, the first role ID of the
\* member does not resolve, a later one resolves and grants VIEW_CHANNEL, and
\* the result is exactly VIEW_CHANNEL.
C20_Witness ==
    /\ op = "member_permissions"
    /\ NonOwnerWithoutAdministrator
    /\ guild.id \in DOMAIN guild.roles
    /\ guild.roles[guild.id].permissions = PermissionsEmpty
    /\ Len(TheMember.roles) = 2
    /\ TheMember.roles[1] \notin DOMAIN guild.roles
    /\ TheMember.roles[2] \in DOMAIN guild.roles
    /\ guild.roles[TheMember.roles[2]].permissions = {VIEW_CHANNEL}
    /\ ret_perms = {VIEW_CHANNEL}

\* The positions of the overwrites keyed by the guild ID as a role.
EveryoneOverwriteIndices ==
    {i \in 1..Len(TheOverwrites) :
        TheOverwrites[i].kind = "Role" /\ TheOverwrites[i].id = guild.id}

\* The positions of the role overwrites whose role ID is in the member's role
\* list.
HeldRoleOverwriteIndices ==
    {i \in 1..Len(TheOverwrites) :
        TheOverwrites[i].kind = "Role"
        /\ TheOverwrites[i].id \in Range(TheMember.roles)}

\* The overwrite in force among those at the positions S: the last one, or
\* one that allows and denies nothing when S is empty.
InForce(S) ==
    IF S = {} THEN [allow |-> {}, deny |-> {}]
    ELSE LET last == CHOOSE i \in S : \A j \in S : j <= i
         IN  [allow |-> TheOverwrites[last].allow, deny |-> TheOverwrites[last].deny]

\* The reference computation, steps 4 to 8, the role overwrites of step 7
\* being those at the positions matching.
ReferenceResult(matching) ==
    LET base == GuildLevelAggregate
        everyone == InForce(EveryoneOverwriteIndices)
        step6 == (base \ everyone.deny) \cup everyone.allow
        D == UNION {TheOverwrites[i].deny : i \in matching}
        A == UNION {TheOverwrites[i].allow : i \in matching}
        step7 == (step6 \ D) \cup A
        own == InForce(OwnOverwriteIndices)
    IN  (step7 \ own.deny) \cup own.allow

\* C17 as stated: the result is the reference computation whose step 7 takes
\* the role overwrites whose role ID is in the member's role list.
C17_AsStated ==
    (op = "user_permissions_in" /\ NonOwnerWithoutAdministrator)
        => ret_perms = ReferenceResult(HeldRoleOverwriteIndices)

\* C17 (amended): for a member who is neither the owner nor an administrator
\* at guild level, user_permissions_in returns the reference computation in
\* its order (base, @everyone overwrite, role overwrites, member overwrite),
\* step 7 taking the role overwrites whose role ID is in the member's role
\* list and is not the guild ID.
C17_ReferenceComputation ==
    (op = "user_permissions_in" /\ NonOwnerWithoutAdministrator)
        => ret_perms = ReferenceResult(HeldRoleOverwriteIndices
                                           \ EveryoneOverwriteIndices)

\* C17 witness: the base is VIEW_CHANNEL; the @everyone overwrite denies it
\* and allows ADMINISTRATOR; the overwrite of a role the member holds denies
\* every flag and allows VIEW_CHANNEL; the result is exactly VIEW_CHANNEL.
C17_Witness ==
    /\ op = "user_permissions_in"
    /\ NonOwnerWithoutAdministrator
    /\ GuildLevelAggregate = {VIEW_CHANNEL}
    /\ Len(TheOverwrites) = 2
    /\ \E i \in EveryoneOverwriteIndices :
          /\ TheOverwrites[i].deny = {VIEW_CHANNEL}
          /\ TheOverwrites[i].allow = {ADMINISTRATOR}
    /\ \E i \in HeldRoleOverwriteIndices \ EveryoneOverwriteIndices :
          /\ TheOverwrites[i].deny = PermissionsAll
          /\ TheOverwrites[i].allow = {VIEW_CHANNEL}
    /\ ret_perms = {VIEW_CHANNEL}

\* The accumulators _user_permissions_in holds after its loop over the
\* overwrites of the call's channel.
TheAccumulators ==
    OverwriteLoop(NoOverwrites, TheOverwrites, 1,
                  TheMember.user_id, TheMember.roles, guild.id)

\* The sets D and A that calculate_permissions builds from the role
\* accumulators acc.
StepSevenD(acc) == UnionLoop(PermissionsEmpty, acc.roles_deny_overwrites, 1)
StepSevenA(acc) == UnionLoop(PermissionsEmpty, acc.roles_allow_overwrites, 1)

\* C18 as stated: when step 7 runs, every role overwrite whose role ID is in
\* the member's role list gives its deny set to D and its allow set to A,
\* the one keyed by the guild ID included when the list contains the guild
\* ID.
C18_AsStated ==
    (op = "user_permissions_in" /\ NonOwnerWithoutAdministrator)
        => LET acc == TheAccumulators
               D == StepSevenD(acc)
               A == StepSevenA(acc)
           IN  \A i \in HeldRoleOverwriteIndices :
                  /\ TheOverwrites[i].deny \subseteq D
                  /\ TheOverwrites[i].allow \subseteq A

\* C18 (amended): D and A are the unions of the deny sets and of the allow
\* sets of exactly the role overwrites whose role ID is in the member's role
\* list and is not the guild ID; the overwrite keyed by the guild ID is
\* applied at step 6 only, even when the member's list contains the guild ID.
C18_StepSevenSkipsGuildId ==
    (op = "user_permissions_in" /\ NonOwnerWithoutAdministrator)
        => LET acc == TheAccumulators
               matching == HeldRoleOverwriteIndices \ EveryoneOverwriteIndices
               everyone == InForce(EveryoneOverwriteIndices)
           IN  /\ StepSevenD(acc) = UNION {TheOverwrites[i].deny : i \in matching}
               /\ StepSevenA(acc) = UNION {TheOverwrites[i].allow : i \in matching}
               /\ acc.everyone_deny_overwrites = everyone.deny
               /\ acc.everyone_allow_overwrites = everyone.allow

\* C18 witness: the member's role list holds the guild ID and another role;
\* the overwrite keyed by the guild ID denies VIEW_CHANNEL, the other role's
\* overwrite allows ADMINISTRATOR; D is empty and A is ADMINISTRATOR.
C18_Witness ==
    /\ op = "user_permissions_in"
    /\ NonOwnerWithoutAdministrator
    /\ guild.id \in Range(TheMember.roles)
    /\ Len(TheOverwrites) = 2
    /\ \E i \in EveryoneOverwriteIndices :
          TheOverwrites[i].deny = {VIEW_CHANNEL}
    /\ \E i \in HeldRoleOverwriteIndices \ EveryoneOverwriteIndices :
          /\ TheOverwrites[i].allow = {ADMINISTRATOR}
          /\ TheOverwrites[i].deny = PermissionsEmpty
    /\ StepSevenD(TheAccumulators) = PermissionsEmpty
    /\ StepSevenA(TheAccumulators) = {ADMINISTRATOR}
    /\ ret_perms = {ADMINISTRATOR}

\* The role level of the precedence: the overwrites of the roles the member
\* holds, the @everyone overwrite being a level of its own.
RoleLevelIndices == HeldRoleOverwriteIndices \ EveryoneOverwriteIndices
RoleLevelDeny == UNION {TheOverwrites[i].deny : i \in RoleLevelIndices}
RoleLevelAllow == UNION {TheOverwrites[i].allow : i \in RoleLevelIndices}

\* The unions of the denies and of the allows of the role overwrites whose
\* role ID is in the member's role list.
HeldRoleDeny == UNION {TheOverwrites[i].deny : i \in HeldRoleOverwriteIndices}
HeldRoleAllow == UNION {TheOverwrites[i].allow : i \in HeldRoleOverwriteIndices}

\* C19 as stated: for a member who is neither the owner nor an administrator
\* at guild level, allow wins an overlap within a level, the matching role
\* overwrites being those whose role ID is in the member's role list:
\*  - a bit both allowed and denied by the member-specific overwrite is in
\*    the result;
\*  - a bit in both the union of the matching role allows and the union of
\*    the matching role denies is in the result unless the member-specific
\*    overwrite denies it without allowing it;
\*  - a bit both allowed and denied by the @everyone overwrite is in the
\*    result unless the matching role overwrites deny it and neither they
\*    nor the member-specific overwrite allow it, or the member-specific
\*    overwrite denies it without allowing it.
C19_AsStated ==
    (op = "user_permissions_in" /\ NonOwnerWithoutAdministrator)
        => LET own == InForce(OwnOverwriteIndices)
               everyone == InForce(EveryoneOverwriteIndices)
           IN  /\ (own.allow \cap own.deny) \subseteq ret_perms
               /\ ((HeldRoleAllow \cap HeldRoleDeny) \ (own.deny \ own.allow))
                      \subseteq ret_perms
               /\ (((everyone.allow \cap everyone.deny)
                       \ (HeldRoleDeny \ (HeldRoleAllow \cup own.allow)))
                       \ (own.deny \ own.allow))
                      \subseteq ret_perms

\* C19 (amended): the same three clauses, the role level being the role
\* overwrites whose role ID is in the member's role list and is not the
\* guild ID:
\*  - a bit both allowed and denied by the member-specific overwrite is in
\*    the result;
\*  - a bit in both the union of the role-level allows and the union of the
\*    role-level denies is in the result unless the member-specific
\*    overwrite denies it without allowing it;
\*  - a bit both allowed and denied by the @everyone overwrite is in the
\*    result unless the role level denies it and neither the role level nor
\*    the member-specific overwrite allows it, or the member-specific
\*    overwrite denies it without allowing it.
C19_AllowWinsWithinLevel ==
    (op = "user_permissions_in" /\ NonOwnerWithoutAdministrator)
        => LET own == InForce(OwnOverwriteIndices)
               everyone == InForce(EveryoneOverwriteIndices)
           IN  /\ (own.allow \cap own.deny) \subseteq ret_perms
               /\ ((RoleLevelAllow \cap RoleLevelDeny) \ (own.deny \ own.allow))
                      \subseteq ret_perms
               /\ (((everyone.allow \cap everyone.deny)
                       \ (RoleLevelDeny \ (RoleLevelAllow \cup own.allow)))
                       \ (own.deny \ own.allow))
                      \subseteq ret_perms

\* C19 witness: no role grants anything and the channel has three
\* overwrites.  The @everyone overwrite allows and denies VIEW_CHANNEL, the
\* overwrite of a role the member holds denies it without allowing it, and
\* the member-specific overwrite, the last of the three, allows and denies
\* it; the result is VIEW_CHANNEL.
C19_Witness ==
    /\ op = "user_permissions_in"
    /\ NonOwnerWithoutAdministrator
    /\ GuildLevelAggregate = {}
    /\ Len(TheOverwrites) = 3
    /\ EveryoneOverwriteIndices # {}
    /\ InForce(EveryoneOverwriteIndices) =
          [allow |-> {VIEW_CHANNEL}, deny |-> {VIEW_CHANNEL}]
    /\ RoleLevelDeny = {VIEW_CHANNEL}
    /\ RoleLevelAllow = {}
    /\ OwnOverwriteIndices = {3}
    /\ TheOverwrites[3].allow = {VIEW_CHANNEL}
    /\ TheOverwrites[3].deny = {VIEW_CHANNEL}
    /\ ret_perms = {VIEW_CHANNEL}

(* ------------------------ claims: engine calls ------------------------- *)

\* The positions, in the channel map's iteration order, of the channels that
\* are not categories and in which the member with user ID u has
\* VIEW_CHANNEL.
ReadableChannelIndices(u) ==
    {i \in 1..Len(guild.channels) :
        /\ guild.channels[i].kind # "Category"
        /\ VIEW_CHANNEL \in UserPermissionsIn(guild, guild.channels[i],
                                              guild.members[u])}

\* C15: default_channel(uid) is None when uid has no entry in the member
\* map; otherwise it is the first channel, in the channel map's iteration
\* order, that is not a category and in which user_permissions_in for that
\* member contains VIEW_CHANNEL, and None when there is no such channel.
C15_DefaultChannelIsFirstReadable ==
    op = "default_channel" =>
        IF user_id \notin DOMAIN guild.members THEN ret_channel = None
        ELSE LET readable == ReadableChannelIndices(user_id)
             IN  IF readable = {} THEN ret_channel = None
                 ELSE \E i \in readable :
                        /\ \A j \in readable : i <= j
                        /\ ret_channel = Some(guild.channels[i])

\* C15 witness: the member is not the owner; the first channel is a category
\* in which the member has VIEW_CHANNEL, the second is not a category and is
\* readable too; the second is returned.
C15_Witness ==
    /\ op = "default_channel"
    /\ user_id \in DOMAIN guild.members
    /\ user_id # guild.owner_id
    /\ Len(guild.channels) = 2
    /\ guild.channels[1].kind = "Category"
    /\ VIEW_CHANNEL \in UserPermissionsIn(guild, guild.channels[1],
                                          guild.members[user_id])
    /\ ReadableChannelIndices(user_id) = {2}
    /\ ret_channel = Some(guild.channels[2])

\* C16: partial_member_permissions_in(channel, member_id, member) panics
\* when the partial member carries a user whose ID is not member_id; when the
\* user is absent or has the ID member_id it returns what the channel-level
\* computation returns for the user member_id with the partial member's role
\* list.
C16_PartialMemberPanicsOnMismatch ==
    op = "partial_member_permissions_in" =>
        IF IsSome(TheMember.user) /\ Unwrap(TheMember.user).id # user_id
        THEN panicked
        ELSE /\ ~panicked
             /\ ret_perms = UserPermissionsIn(
                                guild, Unwrap(channel),
                                [user_id |-> user_id, roles |-> TheMember.roles])

\* C16 witness: the partial member has no user, member_id is not the owner,
\* no role grants anything, the channel's overwrite keyed by member_id allows
\* VIEW_CHANNEL, and the call returns exactly VIEW_CHANNEL.
C16_Witness ==
    /\ op = "partial_member_permissions_in"
    /\ TheMember.user = None
    /\ TheMember.roles # <<>>
    /\ user_id # guild.owner_id
    /\ \A r \in DOMAIN guild.roles : guild.roles[r].permissions = PermissionsEmpty
    /\ Len(TheOverwrites) = 1
    /\ TheOverwrites[1].kind = "Member"
    /\ TheOverwrites[1].id = user_id
    /\ TheOverwrites[1].allow = {VIEW_CHANNEL}
    /\ ~panicked
    /\ ret_perms = {VIEW_CHANNEL}

\* The six operations of the engine, by the name a step that calls one
\* leaves in op.
EngineOperations ==
    {"member_permissions", "user_permissions_in",
     "partial_member_permissions_in", "member_highest_role",
     "greater_member_hierarchy", "default_channel"}

\* C12: no call of member_permissions, user_permissions_in,
\* partial_member_permissions_in, member_highest_role,
\* greater_member_hierarchy or default_channel, and no taking of a result,
\* changes the guild: its ID, owner ID, roles, members, channels and their
\* overwrites are after every such step what they were before it.  (edit,
\* which takes &mut self, is the one call that assigns to the guild, when it
\* resumes with the answer.)
C12_CallsLeaveGuildUnchanged ==
    [][(op' \in EngineOperations \/ op' = "idle") => guild' = guild]_vars

\* C12 witness: a call has returned on a guild that has a role, a member
\* with a role ID that does not resolve, and two channels of which one
\* carries an overwrite.
C12_Witness ==
    /\ op = "member_highest_role"
    /\ DOMAIN guild.roles # {}
    /\ \E r \in Range(TheMember.roles) : r \notin DOMAIN guild.roles
    /\ guild.members[TheMember.user_id] = TheMember
    /\ Len(guild.channels) = 2
    /\ \E i \in 1..2 : guild.channels[i].permission_overwrites # <<>>

(* ----------------------- claims: concurrent calls ---------------------- *)

\* The value the sequential operation returns on the guild the call p was
\* handed.
SequentialPermissions(p) ==
    UserPermissionsIn(Unwrap(calls[p].snapshot), Unwrap(calls[p].channel),
                      Unwrap(calls[p].member))

SequentialHierarchy(p) ==
    GreaterMemberHierarchy(Unwrap(calls[p].snapshot),
                           Unwrap(calls[p].lhs), Unwrap(calls[p].rhs))

\* C13: whatever the interleaving of the calls with each other and with the
\* replacement of the snapshot, a call that is done holds the value the
\* sequential operation returns on the guild that call was handed.
C13_CallsSeeOneSnapshot ==
    \A p \in DOMAIN calls :
        calls[p].pc = "done" =>
            IF IsSome(calls[p].channel)
            THEN calls[p].ret_perms = SequentialPermissions(p)
            ELSE calls[p].ret_user = SequentialHierarchy(p)

\* C13 witness: two calls are done, a permission call and a hierarchy call;
\* they were handed different guilds, the guild now installed is a third
\* one, and on it the sequential operations return other values than the
\* calls hold.
C13_Witness ==
    /\ DOMAIN calls = Procs
    /\ \E p, q \in Procs :
          /\ calls[p].pc = "done"
          /\ calls[q].pc = "done"
          /\ IsSome(calls[p].channel)
          /\ IsSome(calls[q].lhs)
          /\ calls[p].snapshot # calls[q].snapshot
          /\ guild \notin {Unwrap(calls[p].snapshot), Unwrap(calls[q].snapshot)}
          /\ calls[p].ret_perms = SequentialPermissions(p)
          /\ calls[p].ret_perms #
                UserPermissionsIn(guild, Unwrap(calls[p].channel),
                                  Unwrap(calls[p].member))
          /\ calls[q].ret_user = SequentialHierarchy(q)
          /\ calls[q].ret_user #
                GreaterMemberHierarchy(guild, Unwrap(calls[q].lhs), Unwrap(calls[q].rhs))

(* -------------- claims: permission computation, third part ------------- *)

\* The channel c with ADMINISTRATOR taken out of the allow set of each of
\* its overwrites.
WithoutAdministratorAllows(c) ==
    [c EXCEPT !.permission_overwrites =
        [i \in 1..Len(@) |-> [@[i] EXCEPT !.allow = @ \ {ADMINISTRATOR}]]]

\* C30: for a member who is neither the owner nor an administrator at guild
\* level, an overwrite that allows ADMINISTRATOR changes no other bit of the
\* result: the result is, ADMINISTRATOR aside, the result for the same
\* channel with ADMINISTRATOR taken out of every allow set; ADMINISTRATOR
\* itself is in the result only through an allow set; and a deny of the role
\* level or of the member-specific overwrite that no same-or-later allow
\* undoes still removes its bits.
C30_AdministratorByOverwriteIsOneBit ==
    (op = "user_permissions_in" /\ NonOwnerWithoutAdministrator)
        => LET own == InForce(OwnOverwriteIndices)
           IN  /\ ret_perms \ {ADMINISTRATOR} =
                    UserPermissionsIn(guild, WithoutAdministratorAllows(Unwrap(channel)),
                                      TheMember) \ {ADMINISTRATOR}
               /\ ADMINISTRATOR \in ret_perms =>
                    \E i \in 1..Len(TheOverwrites) :
                        ADMINISTRATOR \in TheOverwrites[i].allow
               /\ ret_perms \cap (RoleLevelDeny \ (RoleLevelAllow \cup own.allow)) = {}
               /\ ret_perms \cap (own.deny \ own.allow) = {}

\* C30 witness: the roles grant VIEW_CHANNEL only; the overwrite of a role
\* the member holds allows ADMINISTRATOR and denies nothing; the
\* member-specific overwrite denies VIEW_CHANNEL; the result is exactly
\* ADMINISTRATOR.
C30_Witness ==
    /\ op = "user_permissions_in"
    /\ NonOwnerWithoutAdministrator
    /\ GuildLevelAggregate = {VIEW_CHANNEL}
    /\ Len(TheOverwrites) = 2
    /\ \E i \in RoleLevelIndices :
          /\ TheOverwrites[i].allow = {ADMINISTRATOR}
          /\ TheOverwrites[i].deny = PermissionsEmpty
    /\ \E i \in OwnOverwriteIndices :
          /\ TheOverwrites[i].allow = PermissionsEmpty
          /\ TheOverwrites[i].deny = {VIEW_CHANNEL}
    /\ ret_perms = {ADMINISTRATOR}

\* The positions of the overwrites that a later overwrite with the same key
\* replaces: those keyed by the guild ID or by the member's user ID, the last
\* of each aside.
ReplacedOverwriteIndices ==
    {i \in EveryoneOverwriteIndices : \E j \in EveryoneOverwriteIndices : j > i}
    \cup {i \in OwnOverwriteIndices : \E j \in OwnOverwriteIndices : j > i}

\* The sequence s without the elements at the positions of S.
RECURSIVE WithoutIndices(_, _, _)
WithoutIndices(s, S, i) ==
    IF i > Len(s) THEN <<>>
    ELSE (IF i \in S THEN <<>> ELSE <<s[i]>>) \o WithoutIndices(s, S, i + 1)

\* C29 as stated: of several overwrites keyed by the guild ID, and of several
\* keyed by the member's user ID, the last alone is applied, and the
\* overwrites keyed by one role of the member's role list are all united:
\* each gives its deny set to D and its allow set to A.
C29_AsStated ==
    (op = "user_permissions_in" /\ NonOwnerWithoutAdministrator)
        => LET acc == TheAccumulators
               own == InForce(OwnOverwriteIndices)
               everyone == InForce(EveryoneOverwriteIndices)
           IN  /\ acc.member_allow_overwrites = own.allow
               /\ acc.member_deny_overwrites = own.deny
               /\ acc.everyone_allow_overwrites = everyone.allow
               /\ acc.everyone_deny_overwrites = everyone.deny
               /\ ret_perms =
                    UserPermissionsIn(
                        guild,
                        [permission_overwrites |->
                            WithoutIndices(TheOverwrites, ReplacedOverwriteIndices, 1)],
                        TheMember)
               /\ \A i \in HeldRoleOverwriteIndices :
                    /\ TheOverwrites[i].deny \subseteq StepSevenD(acc)
                    /\ TheOverwrites[i].allow \subseteq StepSevenA(acc)

\* C29 (amended): of several overwrites keyed by the guild ID, and of several keyed by
\* the member's user ID, the last alone is applied: the accumulators of those
\* two levels hold its sets, and the result is the result for the channel
\* without the earlier ones. The overwrites keyed by one role the member
\* holds (other than the guild ID) are all united: each gives its deny set
\* to D and its allow set to A.
C29_LastWinsExceptRoles ==
    (op = "user_permissions_in" /\ NonOwnerWithoutAdministrator)
        => LET acc == TheAccumulators
               own == InForce(OwnOverwriteIndices)
               everyone == InForce(EveryoneOverwriteIndices)
           IN  /\ acc.member_allow_overwrites = own.allow
               /\ acc.member_deny_overwrites = own.deny
               /\ acc.everyone_allow_overwrites = everyone.allow
               /\ acc.everyone_deny_overwrites = everyone.deny
               /\ ret_perms =
                    UserPermissionsIn(
                        guild,
                        [permission_overwrites |->
                            WithoutIndices(TheOverwrites, ReplacedOverwriteIndices, 1)],
                        TheMember)
               /\ \A i \in RoleLevelIndices :
                    /\ TheOverwrites[i].deny \subseteq StepSevenD(acc)
                    /\ TheOverwrites[i].allow \subseteq StepSevenA(acc)

\* C29 witness: the roles grant VIEW_CHANNEL; two overwrites are keyed by the
\* member, the first allows ADMINISTRATOR, the second only denies
\* VIEW_CHANNEL; the result is empty.
C29_Witness ==
    /\ op = "user_permissions_in"
    /\ NonOwnerWithoutAdministrator
    /\ GuildLevelAggregate = {VIEW_CHANNEL}
    /\ OwnOverwriteIndices = {1, 2}
    /\ TheOverwrites[1].allow = {ADMINISTRATOR}
    /\ TheOverwrites[1].deny = PermissionsEmpty
    /\ TheOverwrites[2].allow = PermissionsEmpty
    /\ TheOverwrites[2].deny = {VIEW_CHANNEL}
    /\ ret_perms = PermissionsEmpty

\* The member of the call without the role IDs that do not resolve in the
\* store.
TheMemberResolvedOnly ==
    [TheMember EXCEPT !.roles = SelectSeq(@, LAMBDA r : r \in DOMAIN guild.roles)]

\* The overwrites at the positions S are applied at the role level, and
\* dropping the role IDs that do not resolve leaves the guild-level result
\* as it is.
DanglingOverwritesApplied(S) ==
    /\ (op = "user_permissions_in" /\ NonOwnerWithoutAdministrator)
          => LET acc == TheAccumulators
             IN  \A i \in S :
                    TheOverwrites[i].id \notin DOMAIN guild.roles
                        => /\ TheOverwrites[i].deny \subseteq StepSevenD(acc)
                           /\ TheOverwrites[i].allow \subseteq StepSevenA(acc)
                           /\ TheOverwrites[i].allow \subseteq
                                  (ret_perms \cup OwnDeniedNotAllowed)
    /\ op = "member_permissions"
          => ret_perms = MemberPermissions(guild, TheMemberResolvedOnly)

\* C28 as stated: a role overwrite whose role ID is in the member's role list
\* and does not resolve in the store is applied at the role level; dropping
\* such IDs never changes the guild-level result.
C28_AsStated == DanglingOverwritesApplied(HeldRoleOverwriteIndices)

\* C28 (amended): a role overwrite whose role ID is in the member's role
\* list, is not the guild ID and does not resolve in the store is applied at
\* the role level; dropping such IDs never changes the guild-level result.
C28_DanglingRoleOverwriteApplies == DanglingOverwritesApplied(RoleLevelIndices)

\* C28 witness: no role grants anything; the member's role list holds an ID
\* that does not resolve; the overwrite keyed by it allows VIEW_CHANNEL; the
\* result is VIEW_CHANNEL, and it is empty for the member without that ID.
C28_Witness ==
    /\ op = "user_permissions_in"
    /\ NonOwnerWithoutAdministrator
    /\ GuildLevelAggregate = {}
    /\ Len(TheOverwrites) = 1
    /\ TheOverwrites[1].kind = "Role"
    /\ TheOverwrites[1].id # guild.id
    /\ TheOverwrites[1].id \in Range(TheMember.roles)
    /\ TheOverwrites[1].id \notin DOMAIN guild.roles
    /\ TheOverwrites[1].allow = {VIEW_CHANNEL}
    /\ ret_perms = {VIEW_CHANNEL}
    /\ UserPermissionsIn(guild, Unwrap(channel), TheMemberResolvedOnly) = {}

\* The positions of the overwrites that do not target the member: keyed by
\* a role ID that is neither the guild ID nor in the member's role list, or
\* by another user's ID.
ForeignOverwriteIndices ==
    {i \in 1..Len(TheOverwrites) :
        IF TheOverwrites[i].kind = "Role"
        THEN /\ TheOverwrites[i].id # guild.id
             /\ TheOverwrites[i].id \notin Range(TheMember.roles)
        ELSE TheOverwrites[i].id # TheMember.user_id}

\* C21: the result of user_permissions_in is the result for the channel
\* without the overwrites that do not target the member; hence two channels
\* that differ only in such overwrites give the member the same result.
C21_ForeignOverwritesHaveNoInfluence ==
    op = "user_permissions_in"
        => ret_perms =
              UserPermissionsIn(
                  guild,
                  [permission_overwrites |->
                      WithoutIndices(TheOverwrites, ForeignOverwriteIndices, 1)],
                  TheMember)

\* C21 witness: the member is not the owner and has VIEW_CHANNEL from the
\* roles; the channel carries an overwrite keyed by another user and one
\* keyed by a role the member does not hold, each denying every flag and
\* allowing ADMINISTRATOR; the result is exactly VIEW_CHANNEL.
C21_Witness ==
    /\ op = "user_permissions_in"
    /\ NonOwnerWithoutAdministrator
    /\ GuildLevelAggregate = {VIEW_CHANNEL}
    /\ ForeignOverwriteIndices = {1, 2}
    /\ TheOverwrites[1].kind # TheOverwrites[2].kind
    /\ \A i \in {1, 2} :
          /\ TheOverwrites[i].deny = PermissionsAll
          /\ TheOverwrites[i].allow = {ADMINISTRATOR}
    /\ ret_perms = {VIEW_CHANNEL}

\* The roles of the store that the role list of the member in the call
\* resolves to.
ResolvableRolesOfMember ==
    {guild.roles[r] : r \in Range(TheMember.roles) \cap DOMAIN guild.roles}

\* C22: the role returned by member_highest_role is the maximum of the
\* member's resolvable roles under "greater position first, then smaller
\* ID": no resolvable role of the member has a greater position, or the same
\* position and a smaller ID.  The result is the same for every role list
\* that holds the same role IDs, in whatever order and however often.
C22_HighestRoleIsMaximum ==
    (op = "member_highest_role" /\ IsSome(ret_role)) =>
        /\ \A r \in ResolvableRolesOfMember :
              \/ Unwrap(ret_role).position > r.position
              \/ /\ Unwrap(ret_role).position = r.position
                 /\ Unwrap(ret_role).id <= r.id
        /\ \A l \in RoleLists :
              Range(l) = Range(TheMember.roles) =>
                  MemberHighestRoleIn(guild.roles, [TheMember EXCEPT !.roles = l])
                      = ret_role

\* C22 witness: the member's list names two roles that tie on position, the
\* one with the greater ID first, and the one with the smaller ID is
\* returned.
C22_Witness ==
    /\ op = "member_highest_role"
    /\ Len(TheMember.roles) = 2
    /\ Range(TheMember.roles) \subseteq DOMAIN guild.roles
    /\ TheMember.roles[1] > TheMember.roles[2]
    /\ guild.roles[TheMember.roles[1]].position
          = guild.roles[TheMember.roles[2]].position
    /\ ret_role = Some(guild.roles[TheMember.roles[2]])

\* The call compares two distinct members of the guild, neither of them its
\* owner.
DistinctNonOwnerMembers ==
    /\ IsHierarchyCall
    /\ BothAreMembers
    /\ lhs_id # rhs_id
    /\ guild.owner_id \notin {lhs_id, rhs_id}

\* C23: for two distinct non-owner members whose highest roles both resolve,
\* have different IDs and different positions, greater_member_hierarchy
\* returns the member whose highest role has the strictly greater position.
C23_GreaterPositionWins ==
    (/\ DistinctNonOwnerMembers
     /\ IsSome(HighestOf(lhs_id))
     /\ IsSome(HighestOf(rhs_id))
     /\ Unwrap(HighestOf(lhs_id)).id # Unwrap(HighestOf(rhs_id)).id
     /\ Unwrap(HighestOf(lhs_id)).position # Unwrap(HighestOf(rhs_id)).position)
        => ret_user =
              Some(IF Unwrap(HighestOf(lhs_id)).position
                         > Unwrap(HighestOf(rhs_id)).position
                   THEN lhs_id ELSE rhs_id)

\* C23 witness: the right-hand member's highest role has the greater
\* position and the greater ID, and the right-hand member is returned.
C23_Witness ==
    /\ DistinctNonOwnerMembers
    /\ IsSome(HighestOf(lhs_id))
    /\ IsSome(HighestOf(rhs_id))
    /\ Unwrap(HighestOf(rhs_id)).position > Unwrap(HighestOf(lhs_id)).position
    /\ Unwrap(HighestOf(rhs_id)).id > Unwrap(HighestOf(lhs_id)).id
    /\ ret_user = Some(rhs_id)

\* C27: greater_member_hierarchy does not depend on the order of its two
\* arguments: the call with (lhs_id, rhs_id) returns what the call with
\* (rhs_id, lhs_id) returns on the same guild, for every pair of user IDs.
C27_ArgumentOrderIsIrrelevant ==
    IsHierarchyCall => ret_user = GreaterMemberHierarchy(guild, rhs_id, lhs_id)

\* C27 witness: two distinct non-owner members tie on a position above 0,
\* the left-hand one holds the role with the greater ID, and the right-hand
\* member is returned.
C27_Witness ==
    /\ DistinctNonOwnerMembers
    /\ IsSome(HighestOf(lhs_id))
    /\ IsSome(HighestOf(rhs_id))
    /\ Unwrap(HighestOf(lhs_id)).position = Unwrap(HighestOf(rhs_id)).position
    /\ Unwrap(HighestOf(lhs_id)).position > 0
    /\ Unwrap(HighestOf(lhs_id)).id > Unwrap(HighestOf(rhs_id)).id
    /\ ret_user = Some(rhs_id)

\* The position and the role ID the comparison uses for the member with user
\* ID u: those of the highest role, or the sentinel's when no role resolves.
SidePosition(u) ==
    IF IsSome(HighestOf(u)) THEN Unwrap(HighestOf(u)).position
    ELSE SentinelPosition

SideRoleId(u) ==
    IF IsSome(HighestOf(u)) THEN Unwrap(HighestOf(u)).id ELSE SentinelRoleId

\* Both compared members have a highest role, and it is the same role ID.
SameHighestRoleId ==
    /\ IsSome(HighestOf(lhs_id))
    /\ IsSome(HighestOf(rhs_id))
    /\ Unwrap(HighestOf(lhs_id)).id = Unwrap(HighestOf(rhs_id)).id

\* C24: for two distinct non-owner members, greater_member_hierarchy returns
\* None when the highest-role position of both sides is 0 (a side with no
\* resolvable role counting with the sentinel's position 0), and returns
\* None when the highest roles of both sides have the same role ID; in every
\* other case it returns one of the two user IDs, never None.
C24_AsStated ==
    DistinctNonOwnerMembers =>
        /\ (SidePosition(lhs_id) = 0 /\ SidePosition(rhs_id) = 0)
              => ret_user = None
        /\ SameHighestRoleId => ret_user = None
        /\ (/\ ~(SidePosition(lhs_id) = 0 /\ SidePosition(rhs_id) = 0)
            /\ ~SameHighestRoleId)
              => ret_user \in {Some(lhs_id), Some(rhs_id)}

\* What the code does in the cases of C24: it is None exactly when both
\* positions are 0 or the role IDs it compares are equal, and the role ID it
\* compares for a side with no resolvable role is the sentinel's.
C24_NoneExactlyWhenUnrankedOrSameRole ==
    DistinctNonOwnerMembers =>
        /\ (SidePosition(lhs_id) = 0 /\ SidePosition(rhs_id) = 0)
              => ret_user = None
        /\ SideRoleId(lhs_id) = SideRoleId(rhs_id) => ret_user = None
        /\ (/\ ~(SidePosition(lhs_id) = 0 /\ SidePosition(rhs_id) = 0)
            /\ SideRoleId(lhs_id) # SideRoleId(rhs_id))
              => ret_user \in {Some(lhs_id), Some(rhs_id)}

\* The case of C24 that is None outside its two None cases: the right-hand
\* member's highest role has a position above 0, the left-hand member's role
\* list names a role that does not resolve, and the result is None.
C24_NoneWithOneRolelessSide ==
    /\ DistinctNonOwnerMembers
    /\ IsSome(HighestOf(rhs_id))
    /\ Unwrap(HighestOf(rhs_id)).position > 0
    /\ guild.members[lhs_id].roles # <<>>
    /\ HighestOf(lhs_id) = None
    /\ ret_user = None

\* Exactly one of the two compared members has a role that resolves.
ExactlyOneHasRole == IsSome(HighestOf(lhs_id)) # IsSome(HighestOf(rhs_id))

\* Of the two compared members, the one with a resolvable role and the one
\* without, when exactly one of them has one.
RoleHolder == IF IsSome(HighestOf(lhs_id)) THEN lhs_id ELSE rhs_id

RoleLess == IF IsSome(HighestOf(lhs_id)) THEN rhs_id ELSE lhs_id

\* C25: the sentinel ranks below every genuine role.  For two distinct
\* non-owner members of which exactly one has a resolvable role,
\* greater_member_hierarchy never returns the member without one, whatever
\* the position and ID of the other member's highest role, and it returns
\* the member with the role whenever that role's position is above 0.
C25_AsStated ==
    (DistinctNonOwnerMembers /\ ExactlyOneHasRole) =>
        /\ ret_user # Some(RoleLess)
        /\ Unwrap(HighestOf(RoleHolder)).position > 0
              => ret_user = Some(RoleHolder)

\* What the code does in the case of C25: the member without a role is
\* never returned, and the member with the role is returned whenever the
\* role's position is above 0 and its ID is not the sentinel's.
C25_HolderWinsUnlessRoleIdIsSentinel ==
    (DistinctNonOwnerMembers /\ ExactlyOneHasRole) =>
        /\ ret_user # Some(RoleLess)
        /\ (/\ Unwrap(HighestOf(RoleHolder)).position > 0
            /\ Unwrap(HighestOf(RoleHolder)).id # SentinelRoleId)
              => ret_user = Some(RoleHolder)
        /\ Unwrap(HighestOf(RoleHolder)).id = SentinelRoleId
              => ret_user = None

\* The case of C25 where the role's ID is the sentinel's: the left-hand
\* member's highest role has a position above 0 and the ID 1, the right-hand
\* member's role list is empty, and the result is None.
C25_SentinelCollision ==
    /\ DistinctNonOwnerMembers
    /\ IsSome(HighestOf(lhs_id))
    /\ Unwrap(HighestOf(lhs_id)).position > 0
    /\ Unwrap(HighestOf(lhs_id)).id = SentinelRoleId
    /\ guild.members[rhs_id].roles = <<>>
    /\ ret_user = None

\* a outranks b on the guild of the state: both are members and
\* greater_member_hierarchy(a, b) returns a.
Outranks(a, b) ==
    /\ {a, b} \subseteq DOMAIN guild.members
    /\ GreaterMemberHierarchy(guild, a, b) = Some(a)

\* The left-hand member of the call outranks the right-hand one.
LhsOutranksRhs == IsHierarchyCall /\ BothAreMembers /\ ret_user = Some(lhs_id)

\* C26: on a fixed guild "a outranks b" is a strict partial order over the
\* members: no member outranks itself, a outranks b excludes b outranks a,
\* and a outranks b with b outranks c gives a outranks c, members with no
\* resolvable role and the owner included.
C26_AsStated ==
    LhsOutranksRhs =>
        /\ lhs_id # rhs_id
        /\ ~Outranks(rhs_id, lhs_id)
        /\ \A c \in DOMAIN guild.members :
              Outranks(rhs_id, c) => Outranks(lhs_id, c)

\* The part of C26 the code has: the relation is irreflexive and asymmetric,
\* and transitive along every chain a, b, c in which a and c do not meet as
\* a role with the sentinel's ID against no resolvable role.
C26_StrictOrderApartFromSentinelId ==
    LhsOutranksRhs =>
        /\ lhs_id # rhs_id
        /\ ~Outranks(rhs_id, lhs_id)
        /\ \A c \in DOMAIN guild.members :
              (/\ Outranks(rhs_id, c)
               /\ ~(/\ IsSome(HighestOf(lhs_id))
                    /\ Unwrap(HighestOf(lhs_id)).id = SentinelRoleId
                    /\ HighestOf(c) = None))
                  => Outranks(lhs_id, c)

\* The chain of C26 that breaks: the left-hand member outranks the
\* right-hand one, which outranks a third member with no resolvable role,
\* none of them the owner, and the left-hand member does not outrank the
\* third.
C26_BrokenChain ==
    /\ LhsOutranksRhs
    /\ \E c \in DOMAIN guild.members :
          /\ guild.owner_id \notin {lhs_id, rhs_id, c}
          /\ HighestOf(c) = None
          /\ Outranks(rhs_id, c)
          /\ ~Outranks(lhs_id, c)

====
